---- MODULE Spec2Model ----
(***************************************************************************)
(* A model of thor (mnot/thor): the HTTP client connection pool and the    *)
(* client exchange (thor/http/client/client.py, exchange.py, initiate.py), *)
(* the chunked body decoder of the HTTP codec (thor/http/common.py) and    *)
(* the timer pass of the reactor (thor/loop.py).                           *)
(*                                                                         *)
(* Every handler of the program runs to completion on the reactor thread,  *)
(* so a handler is modelled as an operator from a state record to a state  *)
(* record, and an action applies one handler, with every call it makes,    *)
(* to the current state.                                                   *)
(***************************************************************************)
EXTENDS Integers, Sequences, FiniteSets, TLC

(***************************************************************************)
(* Bounds of the model.                                                    *)
(***************************************************************************)
NumExchanges == 1
NumWaiters == 2
MaxConns == 3
MaxServerConn == 1
MaxBody == 3
MaxTimers == 3
MaxTime == 3
MaxDelta == 2
MaxFds == 1
MaxStops == 1
MaxHandles == 2
MaxListeners == 3
MaxIn == 3
MaxOut == 3
MaxChunk == 2
write_bufsize == 2
read_bufsize == 2
MaxConnects == 2
MaxHeads == 2
MaxAccepts == 2
MaxPipeline == 2
MaxShutdowns == 1
MaxLookups == 3
MaxFields == 2
MaxPending == 3

VARIABLES
    cfg,          \* HttpClient configuration (fixed during a behaviour)
    conn_counts,  \* HttpClient.conn_counts[origin]
    idle_conns,   \* HttpClient._idle_conns[origin]
    req_q,        \* HttpClient._req_q[origin]
    exch,         \* the HttpClientExchange objects
    tcp,          \* the TcpConnection objects
    nconn,        \* number of TcpConnection objects created so far
    wire,         \* chunked decoder: the bytes the server has yet to deliver
    sent,         \* chunked decoder: the body the server encoded
    codec,        \* chunked decoder: the HttpMessageHandler's input side
    sched_events, \* reactor: LoopBase.__sched_events
    now,          \* reactor: LoopBase.__now
    ntimers,      \* reactor: number of timers scheduled so far
    invoked,      \* reactor: the timers the latest timer pass invoked
    reactor,      \* reactor: running, registered fds, timer handles
    emitter,      \* event emitter: listeners of the event, latest dispatch
    sock,         \* a TcpConnection, its socket and its peer
    client,       \* a TcpClient and the connect it is making
    server,       \* an HttpServer, its connections and their exchanges
    message,      \* an HTTP message that is parsed and written out again
    resolver      \* the DNS lookups and the threads that complete them

poolVars == <<cfg, conn_counts, idle_conns, req_q, exch, tcp, nconn>>
codecVars == <<wire, sent, codec>>
loopVars == <<sched_events, now, ntimers, invoked, reactor>>

eventVars == <<emitter>>

tcpVars == <<sock, client>>

appVars == <<server, message, resolver>>

vars == <<poolVars, codecVars, loopVars, eventVars, tcpVars, appVars>>

Exch == DOMAIN exch
Conn == 1 .. MaxConns

(***************************************************************************)
(* Program constants.                                                      *)
(***************************************************************************)
idempotent_methods == {"GET", "HEAD", "PUT", "DELETE", "OPTIONS", "TRACE"}
no_body_status == {"204", "304"}
connect_attempts == 1

Methods == {"GET", "POST"}

(***************************************************************************)
(* What the server can put on the wire, as the codec sees it.  A read      *)
(* delivers a non-empty sequence of tokens:                                *)
(*   head  a complete header block, with what the parser extracts from it  *)
(*   body  body bytes that do not complete the body                        *)
(*   end   the bytes that complete the body (the last counted bytes, or    *)
(*         the last-chunk and its CRLF)                                    *)
(*   junk  any other non-blank bytes                                       *)
(***************************************************************************)
Tok(k, code, ver, close, ka, te, cl, bad) ==
    [k |-> k, code |-> code, ver |-> ver, close |-> close, ka |-> ka,
     te |-> te, cl |-> cl, bad |-> bad]

BodyTok == Tok("body", "", "", FALSE, FALSE, "", -1, "")
EndTok  == Tok("end", "", "", FALSE, FALSE, "", -1, "")
JunkTok == Tok("junk", "", "", FALSE, FALSE, "", -1, "")

HeadKeep    == Tok("head", "200", "1.1", FALSE, FALSE, "none", 1, "none")
HeadEmpty   == Tok("head", "200", "1.1", FALSE, FALSE, "none", 0, "none")
HeadClose   == Tok("head", "200", "1.1", TRUE, FALSE, "none", 1, "none")
HeadChunked == Tok("head", "200", "1.1", FALSE, FALSE, "chunked", -1, "none")
HeadOld     == Tok("head", "200", "1.0", FALSE, FALSE, "none", -1, "none")
HeadNoBody  == Tok("head", "204", "1.1", FALSE, FALSE, "none", -1, "none")
HeadInterim == Tok("head", "100", "1.1", FALSE, FALSE, "none", -1, "none")
HeadBadLine == Tok("head", "200", "1.1", FALSE, FALSE, "none", 1, "startline")
HeadBadName == Tok("head", "200", "1.1", FALSE, FALSE, "none", 1, "hdrspace")

Heads ==
    {HeadKeep, HeadEmpty, HeadClose, HeadChunked, HeadOld, HeadNoBody,
     HeadInterim, HeadBadLine, HeadBadName}

Reads ==
    {<<t>> : t \in Heads \cup {BodyTok, EndTok, JunkTok}}
    \cup {<<h, EndTok>> : h \in {HeadKeep, HeadClose, HeadChunked, HeadBadName}}
    \cup {<<HeadNoBody, JunkTok>>, <<EndTok, JunkTok>>}
    \cup {<<h, EndTok, JunkTok>> : h \in {HeadKeep, HeadClose}}

\* the reads of a server that answers each request with one whole response
WholeReads == {<<HeadKeep, EndTok>>, <<HeadClose, EndTok>>}

(***************************************************************************)
(* thor/http/error.py: HttpError.client_recoverable is False unless a      *)
(* class sets it; UrlError and LengthRequiredError set it to True.         *)
(* DnsError, AccessError, StartLineError and ExtraDataError are raised by  *)
(* the client but not defined in error.py; absent_recoverable is the set   *)
(* of those that are client-recoverable, which the design document gives   *)
(* as none.                                                                *)
(***************************************************************************)
absent_recoverable == {}

client_recoverable(err) ==
    err \in {"UrlError", "LengthRequiredError"} \cup absent_recoverable

(***************************************************************************)
(* The pool state as one record, so that handlers compose.                 *)
(***************************************************************************)
PoolState ==
    [counts |-> conn_counts, idle |-> idle_conns, q |-> req_q,
     ex |-> exch, tcp |-> tcp, nconn |-> nconn]

NoListener == [kind |-> "none", e |-> 0]

NewExchange ==
    [method |-> "", started |-> FALSE, authority |-> FALSE, req_done |-> FALSE,
     tcp_conn |-> 0, input_state |-> "QUIET", input_delimit |-> "NONE",
     input_body_left |-> 0, conn_reusable |-> FALSE, req_started |-> FALSE,
     retries |-> 0, retry_ev |-> 0,
     init |-> "none", attempts |-> 0,
     log |-> <<>>, late |-> FALSE, used |-> 0, err_text |-> "", err_tries |-> 0,
     nonfinal |-> 0, starts |-> 0, in_order |-> TRUE,
     final_reusable |-> FALSE, done_branch |-> "none", gave_up_after |-> 0]

NoTcp ==
    [created |-> FALSE, tcp_connected |-> FALSE, closing |-> FALSE,
     write_buffer |-> FALSE, input_paused |-> TRUE,
     data_l |-> 0, close_l |-> NoListener, idler |-> 0,
     released |-> FALSE]

\* A connection after TcpConnection._close: its fd is unregistered, so no
\* event reaches it any more and its other fields are never read again.
ClosedTcp == [NoTcp EXCEPT !.created = TRUE]

(***************************************************************************)
(* EventEmitter.emit on an exchange, as far as the caller can observe it:  *)
(* log holds the terminating events (response_done and error, by kind) in  *)
(* order; late records that some other event followed a terminating one;   *)
(* used counts the connections handed to the exchange; err_text and        *)
(* err_tries are the text of the ConnectError it was given, if any.        *)
(* nonfinal and starts count the response_nonfinal and response_start      *)
(* events, up to MaxHeads; in_order says that no response_nonfinal         *)
(* followed a response_start.                                              *)
(***************************************************************************)
Terminal(ev) == ev \notin {"response_start", "response_nonfinal", "response_body"}

Capped(n) == IF n < MaxHeads THEN n + 1 ELSE n

emit(S, e, ev) ==
    IF Terminal(ev)
    THEN [S EXCEPT !.ex[e].log = Append(@, ev)]
    ELSE LET S1 == [S EXCEPT !.ex[e].late = @ \/ (S.ex[e].log # <<>>)]
         IN  CASE ev = "response_start" ->
                      [S1 EXCEPT !.ex[e].starts = Capped(@)]
               [] ev = "response_nonfinal" ->
                      [S1 EXCEPT !.ex[e].nonfinal = Capped(@),
                                 !.ex[e].in_order = @ /\ S.ex[e].starts = 0]
               [] OTHER -> S1

(***************************************************************************)
(* TcpConnection.close: flush, then close.  TcpConnection._close.          *)
(***************************************************************************)
tcp_close_now(S, c) == [S EXCEPT !.tcp[c] = ClosedTcp]

tcp_close(S, c) ==
    LET S1 == [S EXCEPT !.tcp[c].input_paused = TRUE]
    IN  IF S1.tcp[c].write_buffer
        THEN [S1 EXCEPT !.tcp[c].closing = TRUE]
        ELSE tcp_close_now(S1, c)

(***************************************************************************)
(* HttpConnectionInitiate.__init__: start the DNS lookup.                  *)
(***************************************************************************)
HttpConnectionInitiate(S, e) ==
    [S EXCEPT !.ex[e].init = "dns", !.ex[e].attempts = 0]

(***************************************************************************)
(* HttpClient._new_conn                                                    *)
(***************************************************************************)
_new_conn(S, e) ==
    IF S.counts >= cfg.max_server_conn
    THEN [S EXCEPT !.q = Append(@, e)]
    ELSE HttpConnectionInitiate(S, e)

(***************************************************************************)
(* HttpClient.dead_conn                                                    *)
(***************************************************************************)
dead_conn(S, e) ==
    LET c  == S.ex[e].tcp_conn
        S1 == IF c # 0 /\ S.tcp[c].tcp_connected THEN tcp_close(S, c) ELSE S
        S2 == [S1 EXCEPT !.ex[e].tcp_conn = 0, !.counts = @ - 1]
    IN  IF S2.counts = 0 /\ S2.q # <<>>
        THEN _new_conn([S2 EXCEPT !.q = Tail(@)], Head(S2.q))
        ELSE S2

(***************************************************************************)
(* HttpClientExchange._handle_connect                                      *)
(***************************************************************************)
exchange_handle_connect(S, e, c) ==
    [S EXCEPT !.ex[e].tcp_conn = c,
              !.ex[e].used = @ + 1,
              !.tcp[c].data_l = e,
              !.tcp[c].close_l = [kind |-> "exchange", e |-> e],
              !.tcp[c].write_buffer = TRUE,
              !.tcp[c].input_paused = FALSE,
              !.tcp[c].released = FALSE]

(***************************************************************************)
(* HttpClient.attach_conn                                                  *)
(***************************************************************************)
RECURSIVE attach_conn(_, _)
attach_conn(S, e) ==
    IF S.idle = <<>>
    THEN _new_conn(S, e)
    ELSE LET c  == S.idle[Len(S.idle)]
             S1 == [S EXCEPT !.idle = SubSeq(@, 1, Len(@) - 1)]
         IN  IF S1.tcp[c].tcp_connected
             THEN exchange_handle_connect(
                      [S1 EXCEPT !.tcp[c].data_l = 0,
                                 !.tcp[c].close_l = NoListener,
                                 !.tcp[c].input_paused = TRUE,
                                 !.tcp[c].idler = 0], e, c)
             ELSE attach_conn(S1, e)

(***************************************************************************)
(* HttpClient.release_conn                                                 *)
(***************************************************************************)
\* release_conn serving the waiter that was queued last
release_conn_last_waiter(S, e) ==
    LET c == S.ex[e].tcp_conn
    IN  IF c = 0 THEN S
        ELSE LET S1 == [S EXCEPT !.tcp[c].data_l = 0,
                                 !.tcp[c].close_l = NoListener,
                                 !.ex[e].tcp_conn = 0]
             IN  IF ~S1.tcp[c].tcp_connected THEN S1
                 ELSE IF S1.q # <<>>
                 THEN exchange_handle_connect(
                          [S1 EXCEPT !.q = SubSeq(@, 1, Len(@) - 1)],
                          S1.q[Len(S1.q)], c)
                 ELSE IF cfg.idle_timeout > 0
                 THEN [S1 EXCEPT !.tcp[c].close_l = [kind |-> "idle", e |-> e],
                                 !.tcp[c].idler = e,
                                 !.tcp[c].released = TRUE,
                                 !.idle = Append(@, c)]
                 ELSE dead_conn([S1 EXCEPT !.tcp[c].released = TRUE], e)

release_conn(S, e) ==
    LET c == S.ex[e].tcp_conn
    IN  IF c = 0 THEN S
        ELSE LET S1 == [S EXCEPT !.tcp[c].data_l = 0,
                                 !.tcp[c].close_l = NoListener,
                                 !.ex[e].tcp_conn = 0]
             IN  IF ~S1.tcp[c].tcp_connected THEN S1
                 ELSE IF S1.q # <<>>
                 THEN exchange_handle_connect(
                          [S1 EXCEPT !.q = Tail(@)], Head(S1.q), c)
                 ELSE IF cfg.idle_timeout > 0
                 THEN [S1 EXCEPT !.tcp[c].close_l = [kind |-> "idle", e |-> e],
                                 !.tcp[c].idler = e,
                                 !.tcp[c].released = TRUE,
                                 !.idle = Append(@, c)]
                 ELSE dead_conn([S1 EXCEPT !.tcp[c].released = TRUE], e)

(***************************************************************************)
(* idle_close, the closure release_conn registers for the close event and  *)
(* for the idle timer of connection c, released by exchange e.             *)
(***************************************************************************)
SeqRemove(s, x) ==
    IF \E i \in 1 .. Len(s) : s[i] = x
    THEN LET i == CHOOSE j \in 1 .. Len(s) :
                      s[j] = x /\ \A k \in 1 .. j - 1 : s[k] # x
         IN  SubSeq(s, 1, i - 1) \o SubSeq(s, i + 1, Len(s))
    ELSE s

idle_close(S, c, e) ==
    LET S1 == dead_conn([S EXCEPT !.tcp[c].idler = 0], e)
    IN  [S1 EXCEPT !.idle = SeqRemove(@, c)]

(***************************************************************************)
(* HttpClientExchange.input_end and input_error                            *)
(***************************************************************************)
\* done_branch records which of the two calls was made.
input_end(S, e) ==
    LET S1 == IF S.ex[e].conn_reusable
              THEN release_conn([S EXCEPT !.ex[e].done_branch = "release"], e)
              ELSE dead_conn([S EXCEPT !.ex[e].done_branch = "dead"], e)
    IN  emit(S1, e, "response_done")

\* input_error without the move to the ERROR state
input_error_keeps_state(S, e, err, close) ==
    emit(IF close THEN dead_conn(S, e) ELSE S, e, err)

input_error(S, e, err, close) ==
    LET S1 == IF client_recoverable(err) /\ ~cfg.careful
              THEN [S EXCEPT !.ex[e].conn_reusable = FALSE]
              ELSE LET S2 == [S EXCEPT !.ex[e].input_state = "ERROR"]
                   IN  IF close THEN dead_conn(S2, e) ELSE S2
    IN  emit(S1, e, err)

(***************************************************************************)
(* HttpMessageHandler._parse_headers with HttpClientExchange.input_start,  *)
(* for the header block h.  The result says whether parsing goes on.       *)
(***************************************************************************)
\* the state _parse_headers leaves the parser in, without the case of an
\* interim response
after_head_done(is_final) == "HEADERS_DONE"

after_head(is_final) == IF is_final THEN "HEADERS_DONE" ELSE "WAITING"

parse_headers(S, e, h) ==
    LET fielderr == h.bad = "hdrspace"
        S1 == IF fielderr THEN input_error(S, e, "HeaderSpaceError", TRUE) ELSE S
    IN  IF fielderr /\ cfg.careful THEN [S |-> S1, ok |-> FALSE]
        ELSE IF h.bad = "startline"
        THEN [S |-> input_error(S1, e, "StartLineError", TRUE), ok |-> FALSE]
        ELSE
        LET transfer_codes == h.te # "none"
            content_length == IF transfer_codes THEN -1 ELSE h.cl
            reusable == ~h.close /\ ((h.ver = "1.0" /\ h.ka) \/ h.ver = "1.1")
            is_final == h.code # "100"
            allows_body == is_final /\ h.code \notin no_body_status
                           /\ S1.ex[e].method # "HEAD"
            S2 == IF reusable THEN [S1 EXCEPT !.ex[e].conn_reusable = TRUE] ELSE S1
            S3 == emit(IF is_final
                       THEN [S2 EXCEPT !.ex[e].final_reusable = reusable]
                       ELSE S2,
                       e, IF is_final THEN "response_start"
                                          ELSE "response_nonfinal")
            delimit == IF ~allows_body THEN "NOBODY"
                       ELSE IF transfer_codes
                       THEN (IF h.te = "chunked" THEN "CHUNKED" ELSE "CLOSE")
                       ELSE IF content_length # -1 THEN "COUNTED"
                       ELSE "CLOSE"
            left == IF delimit = "CHUNKED" THEN -1
                    ELSE IF delimit = "COUNTED" THEN content_length
                    ELSE S3.ex[e].input_body_left
        IN  [S |-> [S3 EXCEPT !.ex[e].input_state = after_head(is_final),
                              !.ex[e].input_delimit = delimit,
                              !.ex[e].input_body_left = left],
             ok |-> TRUE]

\* a block of bytes that is no HTTP status line
BadBlock == Tok("head", "200", "1.1", FALSE, FALSE, "none", -1, "startline")

FirstEnd(toks) ==
    IF \E i \in 1 .. Len(toks) : toks[i].k = "end"
    THEN CHOOSE i \in 1 .. Len(toks) :
             toks[i].k = "end" /\ \A j \in 1 .. i - 1 : toks[j].k # "end"
    ELSE 0

(***************************************************************************)
(* HttpMessageHandler.handle_input and the body handlers _handle_nobody,   *)
(* _handle_close, _handle_counted, _handle_chunked, on the tokens of one   *)
(* read.  The input buffer is not part of the state: what it holds is a    *)
(* partial block that was already looked at, so feeding it again with no   *)
(* new byte changes nothing.                                               *)
(***************************************************************************)
RECURSIVE handle_input(_, _, _)
handle_nobody(S, e, toks) ==
    handle_input(input_end([S EXCEPT !.ex[e].input_state = "QUIET"], e), e, toks)

handle_close(S, e, toks) == emit(S, e, "response_body")

handle_counted(S, e, toks) ==
    LET left == S.ex[e].input_body_left
        i    == FirstEnd(toks)
        rest == IF left = 0 THEN toks ELSE SubSeq(toks, i + 1, Len(toks))
    IN  IF left = 0 \/ i # 0
        THEN LET S1 == input_end(emit(S, e, "response_body"), e)
                 S2 == [S1 EXCEPT !.ex[e].input_state = "QUIET"]
             IN  IF rest # <<>> THEN handle_input(S2, e, rest) ELSE S2
        ELSE emit(S, e, "response_body")

RECURSIVE handle_chunked(_, _, _)
handle_chunked(S, e, toks) ==
    IF toks = <<>> THEN S
    ELSE IF Head(toks).k = "body"
    THEN handle_chunked(emit(S, e, "response_body"), e, Tail(toks))
    ELSE IF Head(toks).k = "end"
    THEN LET S1 == input_end([S EXCEPT !.ex[e].input_state = "QUIET"], e)
         IN  IF Tail(toks) # <<>> THEN handle_input(S1, e, Tail(toks)) ELSE S1
    ELSE input_error(S, e, "ChunkError", TRUE)

handle_input(S, e, toks) ==
    LET st == S.ex[e].input_state
    IN  IF st = "WAITING"
        THEN IF toks = <<>> THEN S
             ELSE LET h == IF Head(toks).k = "head" THEN Head(toks) ELSE BadBlock
                      r == parse_headers(S, e, h)
                  IN  IF r.ok THEN handle_input(r.S, e, Tail(toks)) ELSE r.S
        ELSE IF st = "QUIET"
        THEN IF toks # <<>> THEN input_error(S, e, "ExtraDataError", TRUE) ELSE S
        ELSE IF st = "HEADERS_DONE"
        THEN CASE S.ex[e].input_delimit = "NOBODY"  -> handle_nobody(S, e, toks)
               [] S.ex[e].input_delimit = "CLOSE"   -> handle_close(S, e, toks)
               [] S.ex[e].input_delimit = "COUNTED" -> handle_counted(S, e, toks)
               [] S.ex[e].input_delimit = "CHUNKED" -> handle_chunked(S, e, toks)
        ELSE S

(***************************************************************************)
(* HttpClientExchange._conn_closed, _handle_connect_error, _retry          *)
(***************************************************************************)
schedule_retry(S, e) == [S EXCEPT !.ex[e].retry_ev = @ + 1]

ConnectError(S, e, text, tries) ==
    input_error([S EXCEPT !.ex[e].err_text = text, !.ex[e].err_tries = tries],
                e, "ConnectError", FALSE)

\* _conn_closed without the test of the method
_conn_closed_any_method(S, e) ==
    LET S1 == dead_conn(S, e)
        x  == S1.ex[e]
    IN  IF x.input_state \in {"QUIET", "ERROR"} THEN S1
        ELSE IF x.input_delimit = "CLOSE" THEN input_end(S1, e)
        ELSE IF x.input_state = "WAITING"
        THEN IF x.retries < cfg.retry_limit
             THEN schedule_retry(S1, e)
             ELSE ConnectError(S1, e, "Tried to connect", x.retries + 1)
        ELSE ConnectError(S1, e, "Server dropped connection", 0)

\* _conn_closed taking the close as the end of every body
_conn_closed_ends_body(S, e) ==
    LET S1 == dead_conn(S, e)
        x  == S1.ex[e]
    IN  IF x.input_state \in {"QUIET", "ERROR"} THEN S1
        ELSE IF x.input_state = "HEADERS_DONE" THEN input_end(S1, e)
        ELSE IF x.method \in idempotent_methods
        THEN IF x.retries < cfg.retry_limit
             THEN schedule_retry(S1, e)
             ELSE ConnectError(S1, e, "Tried to connect", x.retries + 1)
        ELSE ConnectError(S1, e, "Can't retry", 0)

_conn_closed(S, e) ==
    LET S1 == dead_conn(S, e)
        x  == S1.ex[e]
    IN  IF x.input_state \in {"QUIET", "ERROR"} THEN S1
        ELSE IF x.input_delimit = "CLOSE" THEN input_end(S1, e)
        ELSE IF x.input_state = "WAITING"
        THEN IF x.method \in idempotent_methods
             THEN IF x.retries < cfg.retry_limit
                  THEN schedule_retry(S1, e)
                  ELSE ConnectError(S1, e, "Tried to connect", x.retries + 1)
             ELSE ConnectError(S1, e, "Can't retry", 0)
        ELSE ConnectError(S1, e, "Server dropped connection", 0)

exchange_handle_connect_error(S, e, err_type) ==
    LET S1 == dead_conn(S, e)
    IN  CASE err_type = "gai"    -> input_error(S1, e, "DnsError", FALSE)
          [] err_type = "access" -> input_error(S1, e, "AccessError", FALSE)
          [] err_type = "retry"  ->
                 ConnectError(S1, e, "Too many connection attempts", 0)
          [] OTHER -> IF S1.ex[e].retries < cfg.retry_limit
                      THEN schedule_retry(S1, e)
                      ELSE ConnectError(S1, e, "", 0)

\* _retry without the count of the retry
_retry_uncounted(S, e) ==
    attach_conn([S EXCEPT !.ex[e].retry_ev = @ - 1], e)

_retry(S, e) ==
    attach_conn([S EXCEPT !.ex[e].retries = @ + 1, !.ex[e].retry_ev = @ - 1], e)

(***************************************************************************)
(* HttpClientExchange.request_start and request_done (with _req_start)     *)
(***************************************************************************)
request_start(S, e, m, uri_ok) ==
    LET S1 == [S EXCEPT !.ex[e].method = m, !.ex[e].started = TRUE,
                        !.ex[e].authority = uri_ok]
    IN  IF uri_ok THEN attach_conn(S1, e)
        ELSE input_error(S1, e, "UrlError", FALSE)

\* _req_start: the headers are queued once; the assertion on authority
\* fails, after _req_started is set, when the URL did not parse.
_req_start(S, e) ==
    IF S.ex[e].req_started THEN S
    ELSE LET S1 == [S EXCEPT !.ex[e].req_started = TRUE]
             c  == S1.ex[e].tcp_conn
         IN  IF ~S1.ex[e].authority THEN S1
             ELSE LET S2 == [S1 EXCEPT !.ex[e].input_state = "WAITING"]
                  IN  IF c # 0 /\ S2.tcp[c].tcp_connected
                      THEN [S2 EXCEPT !.tcp[c].write_buffer = TRUE]
                      ELSE S2

request_done(S, e) ==
    LET S0 == [S EXCEPT !.ex[e].req_done = TRUE]
    IN  IF S0.ex[e].input_state = "ERROR" THEN S0 ELSE _req_start(S0, e)

(***************************************************************************)
(* HttpConnectionInitiate: _handle_dns, _initiate_connection,              *)
(* _handle_connect, _handle_connect_error                                  *)
(***************************************************************************)
_initiate_connection(S, e) ==
    [S EXCEPT !.ex[e].attempts = @ + 1, !.ex[e].init = "connecting"]

_handle_dns(S, e, ok) ==
    IF ok THEN _initiate_connection(S, e)
    ELSE exchange_handle_connect_error([S EXCEPT !.ex[e].init = "none", !.ex[e].attempts = 0], e, "gai")

initiate_handle_connect(S, e) ==
    LET c == S.nconn + 1
    IN  exchange_handle_connect(
            [S EXCEPT !.nconn = c,
                      !.counts = @ + 1,
                      !.ex[e].init = "none",
                      !.ex[e].attempts = 0,
                      !.tcp[c] = [NoTcp EXCEPT !.created = TRUE,
                                               !.tcp_connected = TRUE]], e, c)

initiate_handle_connect_error(S, e, err_type) ==
    IF err_type = "access"
    THEN exchange_handle_connect_error([S EXCEPT !.ex[e].init = "none", !.ex[e].attempts = 0], e, err_type)
    ELSE IF S.ex[e].attempts > connect_attempts
    THEN exchange_handle_connect_error(
             [S EXCEPT !.ex[e].init = "none", !.ex[e].attempts = 0,
                       !.ex[e].gave_up_after = S.ex[e].attempts], e, "retry")
    ELSE [S EXCEPT !.ex[e].init = "resched"]

(***************************************************************************)
(* TcpConnection._handle_close: the peer closed, or the socket died.       *)
(* TcpConnection.handle_writable: the kernel took the buffered bytes.      *)
(***************************************************************************)
tcp_handle_close(S, c) ==
    LET l  == S.tcp[c].close_l
        S1 == [tcp_close_now(S, c) EXCEPT !.tcp[c].close_l = NoListener]
    IN  CASE l.kind = "exchange" -> _conn_closed(S1, l.e)
          [] l.kind = "idle"     -> idle_close(S1, c, l.e)
          [] OTHER               -> S1

tcp_handle_writable(S, c) ==
    LET S1 == [S EXCEPT !.tcp[c].write_buffer = FALSE]
    IN  IF S1.tcp[c].closing THEN tcp_close_now(S1, c) ELSE S1

(***************************************************************************)
(* The chunked body decoder of HttpMessageHandler, byte by byte            *)
(* (thor/http/common.py).  A byte is a one-character string; CR and LF     *)
(* stand for "\r" and "\n".  The decoder state is the record               *)
(* [input_buffer, input_state, input_body_left] of the handler, with what  *)
(* it has reported: body (the input_body chunks, concatenated), ends (the  *)
(* number of input_end calls) and errors.                                  *)
(***************************************************************************)
CR == "CR"
LF == "LF"
SP == " "
HexChars ==
    <<"0", "1", "2", "3", "4", "5", "6", "7", "8", "9",
      "a", "b", "c", "d", "e", "f">>
IsHex(b) == \E i \in 1 .. Len(HexChars) : HexChars[i] = b
HexVal(b) == (CHOOSE i \in 1 .. Len(HexChars) : HexChars[i] = b) - 1
DataBytes == {"z", "1"}

\* bytes.strip(): the whitespace of the model's bytes is CR, LF and SP
Whitespace == {CR, LF, SP}

RECURSIVE lstrip(_)
lstrip(s) ==
    IF s # <<>> /\ Head(s) \in Whitespace THEN lstrip(Tail(s)) ELSE s

RECURSIVE rstrip(_)
rstrip(s) ==
    IF s # <<>> /\ s[Len(s)] \in Whitespace
    THEN rstrip(SubSeq(s, 1, Len(s) - 1)) ELSE s

strip(s) == rstrip(lstrip(s))

\* int(chunk_size, 16): surrounding whitespace is ignored; -1 stands for
\* ValueError.  (No sign, prefix or underscore occurs in the model's bytes.)
RECURSIVE HexNum(_)
HexNum(t) ==
    IF t = <<>> THEN 0
    ELSE 16 * HexNum(SubSeq(t, 1, Len(t) - 1)) + HexVal(t[Len(t)])

int16(s) ==
    LET t == strip(s)
    IN  IF t = <<>> \/ \E i \in 1 .. Len(t) : ~IsHex(t[i]) THEN -1
        ELSE HexNum(t)

\* inbytes.split(b"\r\n", 1): the index of the first CRLF, 0 if there is none
find_crlf(s) ==
    IF \E i \in 1 .. Len(s) - 1 : s[i] = CR /\ s[i + 1] = LF
    THEN CHOOSE i \in 1 .. Len(s) - 1 :
             /\ s[i] = CR /\ s[i + 1] = LF
             /\ \A j \in 1 .. i - 1 : ~(s[j] = CR /\ s[j + 1] = LF)
    ELSE 0

\* HttpMessageHandler._split_headers; pos counts from 0 as in the source
find_lf(s, pos) ==
    IF \E j \in pos + 1 .. Len(s) : s[j] = LF
    THEN (CHOOSE j \in pos + 1 .. Len(s) :
              s[j] = LF /\ \A k \in pos + 1 .. j - 1 : s[k] # LF) - 1
    ELSE -1

RECURSIVE split_from(_, _)
split_from(s, pos) ==
    LET size == Len(s)
        none == [found |-> FALSE, headers |-> <<>>, rest |-> s]
        nl   == find_lf(s, pos)
        b0   == IF nl > 0 /\ s[nl] = CR THEN 1 ELSE 0
        p1   == nl + 1
        cr   == p1 < size /\ s[p1 + 1] = CR
        p2   == IF cr THEN p1 + 1 ELSE p1
        back == IF cr THEN b0 + 1 ELSE b0
    IN  IF pos > size \/ nl = -1 THEN none
        ELSE IF p1 < size /\ p2 < size /\ s[p2 + 1] = LF
        THEN [found |-> TRUE, headers |-> SubSeq(s, 1, p2 - back - 1),
              rest |-> SubSeq(s, p2 + 2, size)]
        ELSE split_from(s, p2)

_split_headers(inbytes) == split_from(inbytes, 0)

\* bytes.splitlines() of a block whose line ends are all CRLF
RECURSIVE splitlines(_)
splitlines(s) ==
    LET i == find_crlf(s)
    IN  IF s = <<>> THEN <<>>
        ELSE IF i = 0 THEN <<s>>
        ELSE <<SubSeq(s, 1, i - 1)>> \o splitlines(SubSeq(s, i + 2, Len(s)))

\* line.split(b":", 1): the index of the first colon, 0 if there is none
find_colon(line) ==
    IF \E i \in 1 .. Len(line) : line[i] = ":"
    THEN CHOOSE i \in 1 .. Len(line) :
             line[i] = ":" /\ \A j \in 1 .. i - 1 : line[j] # ":"
    ELSE 0

\* HttpMessageHandler._parse_fields, the header tuples it returns: a line
\* that starts with a space is folded into the field before it, a line with
\* no colon is skipped, and the value is what follows the colon, as it is
RECURSIVE parse_fields_from(_, _)
parse_fields_from(lines, hdr_tuples) ==
    IF lines = <<>> THEN hdr_tuples
    ELSE LET line == Head(lines)
             i    == find_colon(line)
             n    == Len(hdr_tuples)
         IN  IF line # <<>> /\ Head(line) = SP /\ n > 0
             THEN parse_fields_from(Tail(lines),
                      [hdr_tuples EXCEPT ![n].fv = @ \o <<SP>> \o lstrip(line)])
             ELSE IF i = 0 THEN parse_fields_from(Tail(lines), hdr_tuples)
             ELSE parse_fields_from(Tail(lines),
                      Append(hdr_tuples,
                             [fn |-> SubSeq(line, 1, i - 1),
                              fv |-> SubSeq(line, i + 1, Len(line))]))

_parse_fields(header_lines) == parse_fields_from(header_lines, <<>>)

\* The handler after the head of a chunked message.  careful is the flag of
\* the handler, allows_body what its input_start answers; starts counts the
\* input_start calls and framed holds, for every header block that was
\* parsed to its end, the delimiter and the body length chosen for it.
NewCodec ==
    [input_buffer |-> <<>>, input_state |-> "HEADERS_DONE",
     input_delimit |-> "CHUNKED",
     input_body_left |-> -1, body |-> <<>>, ends |-> 0, errors |-> <<>>,
     chunks |-> <<>>, trailers |-> <<>>,
     careful |-> TRUE, allows_body |-> TRUE, starts |-> 0, framed |-> <<>>]

\* what the exchange does with the decoder's callbacks: body is what
\* input_body was given, chunks the same call by call, trailers what
\* input_end was given
codec_input_body(C, chunk) ==
    [C EXCEPT !.body = @ \o chunk, !.chunks = Append(@, chunk)]
codec_input_end(C, trailers) ==
    [C EXCEPT !.ends = @ + 1, !.trailers = trailers]
codec_input_error(C, err) ==
    [C EXCEPT !.input_state = "ERROR", !.errors = Append(@, err)]

(***************************************************************************)
(* The header block, byte by byte.  A field name, a transfer coding and    *)
(* the start line are single bytes of the model; bytes.lower() maps the    *)
(* capitalised ones to their lower-case form.                              *)
(***************************************************************************)
lower_byte(b) ==
    CASE b = "Content-Length"    -> "content-length"
      [] b = "Transfer-Encoding" -> "transfer-encoding"
      [] b = "Connection"        -> "connection"
      [] b = "Chunked"           -> "chunked"
      [] OTHER -> b

lower(s) == [k \in 1 .. Len(s) |-> lower_byte(s[k])]

\* int(f_val): <<n>> for the number, <<>> for ValueError; f_val is stripped,
\* a sign is accepted
DecDigits == {HexChars[i] : i \in 1 .. 10}

RECURSIVE DecNum(_)
DecNum(t) ==
    IF t = <<>> THEN 0
    ELSE 10 * DecNum(SubSeq(t, 1, Len(t) - 1)) + HexVal(t[Len(t)])

int10(s) ==
    LET neg == s # <<>> /\ Head(s) = "-"
        t   == IF neg THEN Tail(s) ELSE s
    IN  IF t = <<>> \/ \E i \in 1 .. Len(t) : t[i] \notin DecDigits THEN <<>>
        ELSE IF neg THEN <<0 - DecNum(t)>> ELSE <<DecNum(t)>>

\* f_val.split(b','), every part stripped and lower-cased
RECURSIVE split_comma(_)
split_comma(s) ==
    IF \E i \in 1 .. Len(s) : s[i] = ","
    THEN LET i == CHOOSE i \in 1 .. Len(s) :
                      s[i] = "," /\ \A j \in 1 .. i - 1 : s[j] # ","
         IN  <<SubSeq(s, 1, i - 1)>> \o split_comma(SubSeq(s, i + 1, Len(s)))
    ELSE <<s>>

list_tokens(f_val) ==
    [k \in 1 .. Len(split_comma(f_val)) |->
        lower(strip(split_comma(f_val)[k]))]

\* what _parse_fields has gathered so far: content_length is <<>> for None,
\* errors are the input_error calls it made, raised says that it raised
\* ValueError
NoFields ==
    [hdr_tuples |-> <<>>, conn_tokens |-> <<>>, transfer_codes |-> <<>>,
     content_length |-> <<>>, errors |-> <<>>, raised |-> FALSE]

\* self.input_error(err), then ValueError if the handler is careful
field_error(acc, err, careful) ==
    [acc EXCEPT !.errors = Append(@, err), !.raised = careful]

\* the connection-related headers with no check of a repeated Content-Length
gather_conn_info_unchecked(acc, f_name, f_val, careful) ==
    LET v == int10(f_val)
    IN  CASE f_name = <<"connection">> ->
                 [acc EXCEPT !.conn_tokens = @ \o list_tokens(f_val)]
          [] f_name = <<"transfer-encoding">> ->
                 [acc EXCEPT !.transfer_codes = @ \o list_tokens(f_val)]
          [] f_name = <<"content-length">> ->
                 IF v = <<>>
                 THEN field_error(acc, "MalformedCLError", careful)
                 ELSE IF v[1] < 0
                 THEN field_error([acc EXCEPT !.content_length = v],
                                  "MalformedCLError", careful)
                 ELSE [acc EXCEPT !.content_length = v]
          [] OTHER -> acc

\* HttpMessageHandler._parse_fields, the connection-related headers
gather_conn_info(acc, f_name, f_val, careful) ==
    LET v    == int10(f_val)
        dup  == acc.content_length # <<>>
        a1   == IF dup THEN field_error(acc, "DuplicateCLError", careful)
                ELSE acc
    IN  CASE f_name = <<"connection">> ->
                 [acc EXCEPT !.conn_tokens = @ \o list_tokens(f_val)]
          [] f_name = <<"transfer-encoding">> ->
                 [acc EXCEPT !.transfer_codes = @ \o list_tokens(f_val)]
          [] f_name = <<"content-length">> ->
                 IF dup /\ v # <<>> /\ v = acc.content_length THEN acc
                 ELSE IF a1.raised THEN a1
                 ELSE IF v = <<>>
                 THEN field_error(a1, "MalformedCLError", careful)
                 ELSE IF v[1] < 0
                 THEN field_error([a1 EXCEPT !.content_length = v],
                                  "MalformedCLError", careful)
                 ELSE [a1 EXCEPT !.content_length = v]
          [] OTHER -> acc

\* HttpMessageHandler._parse_fields, one line of the header block
parse_field_line(acc, line, careful) ==
    LET n   == Len(acc.hdr_tuples)
        lws == line # <<>> /\ Head(line) = SP
        i   == find_colon(line)
        fn  == SubSeq(line, 1, i - 1)
        fv  == SubSeq(line, i + 1, Len(line))
        a1  == IF lws THEN field_error(acc, "TopLineSpaceError", careful)
               ELSE acc
        a2  == IF fn # <<>> /\ fn[Len(fn)] = SP
               THEN field_error(a1, "HeaderSpaceError", careful) ELSE a1
        a3  == [a2 EXCEPT !.hdr_tuples = Append(@, [fn |-> fn, fv |-> fv])]
    IN  IF lws /\ n > 0
        THEN [acc EXCEPT !.hdr_tuples[n].fv = @ \o <<SP>> \o lstrip(line)]
        ELSE IF a1.raised \/ i = 0 THEN a1
        ELSE IF a2.raised THEN a2
        ELSE gather_conn_info(a3, lower(strip(fn)), strip(fv), careful)

\* HttpMessageHandler._parse_fields(header_lines, True)
RECURSIVE parse_fields_conn_info(_, _, _)
parse_fields_conn_info(lines, acc, careful) ==
    IF lines = <<>> \/ acc.raised THEN acc
    ELSE parse_fields_conn_info(Tail(lines),
                                parse_field_line(acc, Head(lines), careful),
                                careful)

\* the header lines from the first one that is not blank
RECURSIVE pop_top_line(_)
pop_top_line(header_lines) ==
    IF header_lines = <<>> \/ strip(Head(header_lines)) # <<>>
    THEN header_lines ELSE pop_top_line(Tail(header_lines))

\* HttpMessageHandler._parse_headers, the choice of the delimiter by the
\* first transfer coding instead of the last
input_delimit_by_first_code(allows_body, transfer_codes, content_length) ==
    IF ~allows_body THEN "NOBODY"
    ELSE IF transfer_codes # <<>>
    THEN (IF transfer_codes[1] = <<"chunked">> THEN "CHUNKED" ELSE "CLOSE")
    ELSE IF content_length # <<>> THEN "COUNTED"
    ELSE "CLOSE"

\* HttpMessageHandler._parse_headers, the choice of the delimiter
input_delimit(allows_body, transfer_codes, content_length) ==
    IF ~allows_body THEN "NOBODY"
    ELSE IF transfer_codes # <<>>
    THEN (IF transfer_codes[Len(transfer_codes)] = <<"chunked">>
          THEN "CHUNKED" ELSE "CLOSE")
    ELSE IF content_length # <<>> THEN "COUNTED"
    ELSE "CLOSE"

RECURSIVE input_errors(_, _)
input_errors(C, errs) ==
    IF errs = <<>> THEN C
    ELSE input_errors(codec_input_error(C, Head(errs)), Tail(errs))

\* HttpMessageHandler._parse_headers; input_start accepts every start line
\* and answers (allows_body, True).  ok is what _parse_headers returns.
_parse_headers(C, inbytes) ==
    LET header_lines == pop_top_line(splitlines(inbytes))
        r  == parse_fields_conn_info(Tail(header_lines), NoFields, C.careful)
        C1 == input_errors(C, r.errors)
        content_length == IF r.transfer_codes # <<>> THEN <<>>
                          ELSE r.content_length
        delimit == input_delimit(C.allows_body, r.transfer_codes,
                                 content_length)
        left == CASE delimit = "CHUNKED" -> -1
                  [] delimit = "COUNTED" -> content_length[1]
                  [] OTHER -> C1.input_body_left
    IN  IF header_lines = <<>> THEN [C |-> C, ok |-> TRUE]
        ELSE IF r.raised THEN [C |-> C1, ok |-> FALSE]
        ELSE [C |-> [C1 EXCEPT !.starts = @ + 1,
                               !.input_state = "HEADERS_DONE",
                               !.input_delimit = delimit,
                               !.input_body_left = left,
                               !.framed = Append(@, [delimit |-> delimit,
                                                     left |-> left])],
              ok |-> TRUE]

Min(a, b) == IF a < b THEN a ELSE b

\* inbytes[:n] and inbytes[n:] of Python, for n of either sign
py_prefix(inbytes, n) ==
    IF n >= 0 THEN SubSeq(inbytes, 1, Min(n, Len(inbytes)))
    ELSE SubSeq(inbytes, 1, Len(inbytes) + n)

py_suffix(inbytes, n) ==
    IF n >= 0 THEN SubSeq(inbytes, Min(n, Len(inbytes)) + 1, Len(inbytes))
    ELSE SubSeq(inbytes, IF Len(inbytes) + n < 0 THEN 1
                         ELSE Len(inbytes) + n + 1, Len(inbytes))

\* HttpMessageHandler._handle_chunk_new
_handle_chunk_new(C, inbytes) ==
    LET i == find_crlf(inbytes)
        chunk_size == SubSeq(inbytes, 1, i - 1)
        rest == SubSeq(inbytes, i + 2, Len(inbytes))
        n == int16(chunk_size)
    IN  IF i = 0
        THEN IF Len(inbytes) > 512
             THEN [C |-> codec_input_error(C, "ChunkError"), rest |-> <<>>]
             ELSE [C |-> [C EXCEPT !.input_buffer = @ \o inbytes],
                   rest |-> <<>>]
        ELSE IF n = -1
        THEN [C |-> codec_input_error(C, "ChunkError"), rest |-> <<>>]
        ELSE [C |-> [C EXCEPT !.input_body_left = n], rest |-> rest]

\* HttpMessageHandler._handle_chunk_body
_handle_chunk_body(C, inbytes) ==
    LET got  == Len(inbytes)
        left == C.input_body_left
    IN  IF left + 2 < got
        THEN [C |-> [codec_input_body(C, SubSeq(inbytes, 1, left))
                        EXCEPT !.input_body_left = -1],
              rest |-> SubSeq(inbytes, left + 3, got)]
        ELSE IF left + 2 = got
        THEN [C |-> [codec_input_body(C, SubSeq(inbytes, 1, got - 2))
                        EXCEPT !.input_body_left = -1],
              rest |-> <<>>]
        ELSE IF left = got
        THEN [C |-> [C EXCEPT !.input_buffer = @ \o inbytes], rest |-> <<>>]
        ELSE [C |-> [codec_input_body(C, inbytes)
                        EXCEPT !.input_body_left = left - got],
              rest |-> <<>>]

RECURSIVE handle_input_bytes(_, _)

\* HttpMessageHandler._handle_chunk_done
_handle_chunk_done(C, inbytes) ==
    LET t == _split_headers(inbytes)
    IN  IF Len(inbytes) >= 2 /\ inbytes[1] = CR /\ inbytes[2] = LF
        THEN LET C1 == codec_input_end([C EXCEPT !.input_state = "QUIET"],
                                       <<>>)
             IN  IF Len(inbytes) > 2
                 THEN handle_input_bytes(C1, SubSeq(inbytes, 3, Len(inbytes)))
                 ELSE C1
        ELSE IF t.found
        THEN handle_input_bytes(
                 codec_input_end([C EXCEPT !.input_state = "QUIET"],
                                 _parse_fields(splitlines(t.headers))),
                 t.rest)
        ELSE [C EXCEPT !.input_buffer = @ \o inbytes]

\* HttpMessageHandler._handle_chunked
RECURSIVE _handle_chunked(_, _)
_handle_chunked(C, inbytes) ==
    IF inbytes = <<>> THEN C
    ELSE IF C.input_body_left < 0
    THEN LET r == _handle_chunk_new(C, inbytes)
         IN  _handle_chunked(r.C, r.rest)
    ELSE IF C.input_body_left > 0
    THEN LET r == _handle_chunk_body(C, inbytes)
         IN  _handle_chunked(r.C, r.rest)
    ELSE _handle_chunk_done(C, inbytes)

\* HttpMessageHandler._handle_nobody
_handle_nobody(C, inbytes) ==
    handle_input_bytes(
        codec_input_end([C EXCEPT !.input_state = "QUIET"], <<>>), inbytes)

\* HttpMessageHandler._handle_close
codec_handle_close(C, inbytes) == codec_input_body(C, inbytes)

\* HttpMessageHandler._handle_counted
_handle_counted(C, inbytes) ==
    LET left == C.input_body_left
        rest == py_suffix(inbytes, left)
        C1   == [codec_input_end(codec_input_body(C, py_prefix(inbytes, left)),
                                 <<>>)
                    EXCEPT !.input_state = "QUIET"]
    IN  IF left <= Len(inbytes)
        THEN (IF rest # <<>> THEN handle_input_bytes(C1, rest) ELSE C1)
        ELSE [codec_input_body(C, inbytes)
                 EXCEPT !.input_body_left = left - Len(inbytes)]

\* HttpMessageHandler.handle_input in the QUIET state, for input with no
\* byte at all only
quiet_on_empty(C0, inbytes) ==
    IF inbytes # <<>> THEN codec_input_error(C0, "ExtraDataError") ELSE C0

\* HttpMessageHandler.handle_input in the QUIET state
quiet(C0, inbytes) ==
    IF strip(inbytes) # <<>>
    THEN codec_input_error(C0, "ExtraDataError") ELSE C0

\* HttpMessageHandler.handle_input
handle_input_bytes(C, data) ==
    LET inbytes == C.input_buffer \o data
        C0 == [C EXCEPT !.input_buffer = <<>>]
        t  == _split_headers(inbytes)
        r  == _parse_headers(C0, t.headers)
    IN  CASE C0.input_state = "WAITING" ->
                 IF ~t.found THEN [C0 EXCEPT !.input_buffer = inbytes]
                 ELSE IF r.ok THEN handle_input_bytes(r.C, t.rest)
                 ELSE r.C
          [] C0.input_state = "QUIET" -> quiet(C0, inbytes)
          [] C0.input_state = "HEADERS_DONE" ->
                 (CASE C0.input_delimit = "NOBODY" ->
                           _handle_nobody(C0, inbytes)
                    [] C0.input_delimit = "CLOSE" ->
                           codec_handle_close(C0, inbytes)
                    [] C0.input_delimit = "COUNTED" ->
                           _handle_counted(C0, inbytes)
                    [] C0.input_delimit = "CHUNKED" ->
                           _handle_chunked(C0, inbytes))
          [] OTHER -> C0

\* the wire form of a body cut into chunks of the given sizes
RECURSIVE Encode(_, _)
Encode(B, sizes) ==
    IF sizes = <<>> THEN <<"0", CR, LF, CR, LF>>
    ELSE <<HexChars[Head(sizes) + 1], CR, LF>>
             \o SubSeq(B, 1, Head(sizes)) \o <<CR, LF>>
             \o Encode(SubSeq(B, Head(sizes) + 1, Len(B)), Tail(sizes))

(***************************************************************************)
(* The reactor (thor/loop.py).  A scheduled event is the pair              *)
(* (when, callback) of the source, with the callback named by id: every    *)
(* call of schedule makes a new closure cb, so no two events are equal.    *)
(* reactor.handles[id] is the ScheduledEvent returned for event id, with   *)
(* what its callback does and how often it was invoked.                    *)
(***************************************************************************)
LoopState ==
    [sched |-> sched_events, now |-> now, n |-> ntimers, invoked |-> invoked,
     handles |-> reactor.handles, running |-> reactor.running,
     fd_targets |-> reactor.fd_targets, last_emit |-> reactor.last_emit,
     epoch |-> reactor.epoch, changed |-> reactor.changed]

\* LoopBase.__init__; epoch counts the calls of stop, and changed records
\* whether a delete() of a handle already deleted or already fired altered
\* the list of scheduled events
NewReactor ==
    [handles |-> <<>>, running |-> FALSE, fd_targets |-> {},
     last_emit |-> "", epoch |-> 0, changed |-> FALSE]

\* LoopBase._insort: the index (from 0) at which thing is inserted
RECURSIVE insort_at(_, _, _, _)
insort_at(li, thing, lo, hi) ==
    IF lo < hi
    THEN LET mid == (lo + hi) \div 2
         IN  IF thing.when < li[mid + 1].when
             THEN insort_at(li, thing, lo, mid)
             ELSE insort_at(li, thing, mid + 1, hi)
    ELSE lo

_insort(li, thing) ==
    LET lo == insort_at(li, thing, 0, Len(li))
    IN  SubSeq(li, 1, lo) \o <<thing>> \o SubSeq(li, lo + 1, Len(li))

\* ScheduledEvent.__init__
NewHandle(L, event, callback) ==
    [when |-> event.when, callback |-> callback, deleted |-> FALSE,
     fired |-> 0, calls |-> 0, cancelled |-> FALSE, epoch |-> L.epoch,
     fired_epoch |-> L.epoch]

\* LoopBase.schedule
schedule(L, delta, callback) ==
    LET new_event == [when |-> L.now + delta, id |-> L.n + 1]
    IN  [L EXCEPT !.sched = _insort(@, new_event), !.n = @ + 1,
                  !.handles = Append(@, NewHandle(L, new_event, callback))]

\* LoopBase.schedule_del (list.remove: the first equal element; the
\* ValueError for an event that is not in the list is caught)
schedule_del(L, event) == [L EXCEPT !.sched = SeqRemove(@, event)]

\* ScheduledEvent.delete; calls counts the calls (up to 2), cancelled says
\* that delete was called before the timer fired
delete(L, h) ==
    LET hd == L.handles[h]
        L1 == IF hd.deleted THEN L
              ELSE [schedule_del(L, [when |-> hd.when, id |-> h])
                       EXCEPT !.handles[h].deleted = TRUE]
    IN  [L1 EXCEPT !.handles[h].calls = IF @ < 2 THEN @ + 1 ELSE @,
                   !.handles[h].cancelled = @ \/ hd.fired = 0,
                   !.changed = @ \/ ((hd.deleted \/ hd.fired > 0)
                                        /\ L1.sched # L.sched)]

\* stop without the reset of the scheduled events
stop_keeps_timers(L) ==
    [L EXCEPT !.running = FALSE, !.fd_targets = {},
              !.last_emit = "stop", !.epoch = @ + 1]

\* stop that leaves the loop running, with its scheduled events
stop_keeps_running(L) ==
    [L EXCEPT !.fd_targets = {}, !.last_emit = "stop", !.epoch = @ + 1]

\* LoopBase.stop (unregister_fd of every fd, then emit("stop"))
stop(L) ==
    [L EXCEPT !.sched = <<>>, !.running = FALSE, !.fd_targets = {},
              !.last_emit = "stop", !.epoch = @ + 1]

\* LoopBase.run up to the loop: running is set and "start" is emitted
run(L) == [L EXCEPT !.running = TRUE, !.last_emit = "start"]

\* the callback of event id: it does nothing, deletes its own handle or the
\* handle of the timer scheduled after it, or stops the loop
what(L, id) ==
    LET cb == L.handles[id].callback
        L1 == [L EXCEPT !.handles[id].fired = @ + 1,
                        !.handles[id].fired_epoch = L.epoch]
    IN  CASE cb.op = "noop" -> L1
          [] cb.op = "delete_self" -> delete(L1, id)
          [] cb.op = "delete_next" ->
                IF id + 1 <= Len(L1.handles) THEN delete(L1, id + 1) ELSE L1
          [] cb.op = "stop" -> stop(L1)

\* a timer pass that leaves the events it invokes in the list
RECURSIVE timer_pass_keeping(_, _)
timer_pass_keeping(L, i) ==
    IF i >= Len(L.sched) THEN L
    ELSE LET event == L.sched[i + 1]
         IN  IF L.running /\ L.now >= event.when
             THEN timer_pass_keeping(
                      what([L EXCEPT !.invoked = Append(@, event)],
                           event.id), i + 1)
             ELSE L

\* The timer pass of LoopBase.run: "for event in self.__sched_events" with
\* the removal of the event inside the loop.  A Python list iterator holds
\* an index i into the list and stops when i reaches the list's length.
\* (The event the iterator yields is in the list, so remove finds it.)
RECURSIVE timer_pass(_, _)
timer_pass(L, i) ==
    IF i >= Len(L.sched) THEN L
    ELSE LET event == L.sched[i + 1]
         IN  IF L.running /\ L.now >= event.when
             THEN timer_pass(
                      what([L EXCEPT !.sched = SeqRemove(@, event),
                                     !.invoked = Append(@, event)],
                           event.id), i + 1)
             ELSE L

(***************************************************************************)
(* The event emitter (thor/events.py), for one event E.                    *)
(* heap holds the list objects made for E and cur names the one that       *)
(* self.__events holds (0: E is not a key): remove_listener and on change  *)
(* that list in place, remove_listeners puts a new one in its place, and   *)
(* an emit under way keeps walking the list object it started with.        *)
(* regs[l] is listener l: whether it was registered with once, what its    *)
(* body does and how often the body ran (counted up to 2).  The other      *)
(* fields describe the latest operation: raised (it raised ValueError)     *)
(* and, for an emit, the walk of its outermost dispatch: the list it       *)
(* started with, the bodies it ran (calls), the listeners remove_listener  *)
(* took away before their turn (skipped) and those of them that ran all    *)
(* the same (late), whether remove_listeners was called (cleared), the     *)
(* listeners the walk had yet to visit at that moment (rest) and the       *)
(* bodies it ran afterwards (after).                                       *)
(***************************************************************************)
NewEmitter ==
    [heap |-> <<>>, cur |-> 0, regs |-> <<>>, raised |-> FALSE,
     nemits |-> 0, top |-> 0, top_i |-> 0, start |-> <<>>, calls |-> <<>>,
     skipped |-> {}, late |-> {}, cleared |-> FALSE, rest |-> <<>>,
     after |-> <<>>]

\* a new operation begins: forget the walk of the previous one
Fresh(Em) ==
    [Em EXCEPT !.raised = FALSE, !.top = 0, !.top_i = 0, !.start = <<>>,
               !.calls = <<>>, !.skipped = {}, !.late = {},
               !.cleared = FALSE, !.rest = <<>>, !.after = <<>>]

\* the list self.__events.get(event, []) returns
listeners(Em) == IF Em.cur = 0 THEN <<>> ELSE Em.heap[Em.cur]

Range(q) == {q[k] : k \in 1 .. Len(q)}

\* the elements of list li that follow position i (counted from 0)
Following(li, i) == SubSeq(li, i + 2, Len(li))

\* EventEmitter.on; once registers the wrapper mycall of the listener.
\* (emit("newListener") finds no listener.)
on(Em, once, body) ==
    LET l == Len(Em.regs) + 1
        Em1 == [Em EXCEPT !.regs = Append(@, [once |-> once, body |-> body,
                                              count |-> 0])]
    IN  IF Em.cur = 0
        THEN [Em1 EXCEPT !.heap = Append(@, <<l>>), !.cur = Len(Em.heap) + 1]
        ELSE [Em1 EXCEPT !.heap[Em.cur] = Append(@, l)]

\* EventEmitter.remove_listener: self.__events.get(event, [listener])
\* .remove(listener).  A listener registered with once is in the list as
\* its wrapper, which only the wrapper itself can name.
remove_listener(Em, l, by_wrapper) ==
    LET li == listeners(Em)
        there == /\ l \in Range(li)
                 /\ by_wrapper \/ ~Em.regs[l].once
    IN  IF Em.cur = 0 THEN Em
        ELSE IF there
        THEN [Em EXCEPT !.heap[Em.cur] = SeqRemove(li, l),
                        !.skipped = IF Em.calls # <<>> /\ ~by_wrapper
                                       /\ l \notin Range(Em.calls)
                                    THEN @ \cup {l} ELSE @]
        ELSE [Em EXCEPT !.raised = TRUE]

\* what the walk of the outermost dispatch has yet to visit
Unvisited(Em) ==
    IF Em.top = 0 THEN <<>> ELSE Following(Em.heap[Em.top], Em.top_i)

\* EventEmitter.remove_listeners(event): self.__events[event] = []
remove_listeners_event(Em) ==
    [Em EXCEPT !.heap = Append(@, <<>>), !.cur = Len(Em.heap) + 1,
               !.cleared = TRUE,
               !.rest = IF Em.cleared THEN @ ELSE Unvisited(Em)]

\* EventEmitter.remove_listeners(): self.__events = defaultdict(list)
remove_listeners_all(Em) ==
    [Em EXCEPT !.cur = 0, !.cleared = TRUE,
               !.rest = IF Em.cleared THEN @ ELSE Unvisited(Em)]

RECURSIVE emitter_emit(_, _)

\* the body of listener l, run at nesting depth d of emits: it does
\* nothing, emits E again (the first time it runs), or removes listeners
listener_body(Em, l, d) ==
    LET b == Em.regs[l].body
        Em1 == [Em EXCEPT !.regs[l].count = IF @ < 2 THEN @ + 1 ELSE @,
                          !.calls = IF d = 1 THEN Append(@, l) ELSE @,
                          !.after = IF d = 1 /\ Em.cleared
                                    THEN Append(@, l) ELSE @,
                          !.late = IF l \in Em.skipped
                                   THEN @ \cup {l} ELSE @]
    IN  CASE b.op = "noop" -> Em1
          [] b.op = "emit" ->
                IF Em.regs[l].count = 0 THEN emitter_emit(Em1, d + 1)
                ELSE Em1
          [] b.op = "remove_listener" ->
                remove_listener(Em1, b.target, FALSE)
          [] b.op = "remove_listeners_event" -> remove_listeners_event(Em1)
          [] b.op = "remove_listeners_all" -> remove_listeners_all(Em1)

\* EventEmitter.once.mycall: remove the wrapper, then run the listener
mycall(Em, l, d) ==
    LET Em1 == remove_listener(Em, l, TRUE)
    IN  IF Em1.raised THEN Em1 ELSE listener_body(Em1, l, d)

\* a dispatch over a copy of the list, which no removal changes
RECURSIVE walk_copy(_, _, _, _)
walk_copy(Em, li, i, d) ==
    IF Em.raised \/ i >= Len(li) THEN Em
    ELSE LET l == li[i + 1]
             Em1 == [Em EXCEPT !.top_i = IF d = 1 THEN i ELSE @]
         IN  walk_copy(IF Em.regs[l].once THEN mycall(Em1, l, d)
                       ELSE listener_body(Em1, l, d), li, i + 1, d)

dispatch_copy(Em, obj, i, d) == walk_copy(Em, Em.heap[obj], i, d)

\* "for ev in events: ev(*args)" over list object obj, the list iterator
\* at index i; an exception ends the dispatch
RECURSIVE dispatch(_, _, _, _)
dispatch(Em, obj, i, d) ==
    IF Em.raised \/ i >= Len(Em.heap[obj]) THEN Em
    ELSE LET l == Em.heap[obj][i + 1]
             Em1 == [Em EXCEPT !.top_i = IF d = 1 THEN i ELSE @]
         IN  dispatch(IF Em.regs[l].once THEN mycall(Em1, l, d)
                      ELSE listener_body(Em1, l, d), obj, i + 1, d)

\* EventEmitter.emit (no sink is set)
emitter_emit(Em, d) ==
    IF listeners(Em) # <<>> THEN dispatch(Em, Em.cur, 0, d) ELSE Em

\* outside any dispatch only the list that self.__events holds is still
\* referenced
collect(Em) ==
    [Em EXCEPT !.heap = IF Em.cur = 0 THEN <<>> ELSE <<Em.heap[Em.cur]>>,
               !.cur = IF Em.cur = 0 THEN 0 ELSE 1,
               !.top = 0, !.top_i = 0]

\* an emit from outside any listener
emit_outermost(Em) ==
    collect(emitter_emit([Fresh(Em) EXCEPT
                              !.top = Em.cur, !.start = listeners(Em),
                              !.nemits = IF @ < 2 THEN @ + 1 ELSE @], 1))

(***************************************************************************)
(* The pool as a state machine.                                            *)
(***************************************************************************)
RetryLimits == {0, 1, 3}

Configs ==
    [idle_timeout : {0, 1}, retry_limit : RetryLimits,
     max_server_conn : {1}, careful : BOOLEAN]

\* the parts of the system a specification leaves alone
PoolIdle ==
    /\ cfg = [idle_timeout |-> 1, retry_limit |-> 0, max_server_conn |-> 1,
              careful |-> TRUE]
    /\ conn_counts = 0
    /\ idle_conns = <<>>
    /\ req_q = <<>>
    /\ exch = [e \in 1 .. NumExchanges |-> NewExchange]
    /\ tcp = [c \in Conn |-> NoTcp]
    /\ nconn = 0

CodecIdle == wire = <<>> /\ sent = <<>> /\ codec = NewCodec

EventsIdle == emitter = NewEmitter

\* TcpConnection.__init__ on a connected socket with file descriptor fd.
\* handlers: handle_readable, handle_writable and _handle_close listen to
\* the fd events; registered: the loop has the fd among its targets.
\* inbound is what the peer sent and recv has not yet returned (bytes are
\* numbered in the order of their arrival), accepted counts the bytes
\* send took.  delivered, closes, data_after_close and closed_with
\* record the data and close events emitted and the number of buffered
\* bytes when a pending close() closed the connection (-1: it did not);
\* unpaused_with is the number of buffered bytes when pause(False) was
\* first emitted (-1: it was not).
NewConnection(fd) ==
    [fd |-> fd, registered |-> TRUE, handlers |-> TRUE, interesting |-> {},
     tcp_connected |-> TRUE, input_paused |-> TRUE, output_paused |-> FALSE,
     closing |-> FALSE, write_buffer |-> <<>>, socket_open |-> TRUE,
     raised |-> FALSE,
     inbound |-> <<>>, arrived |-> 0, peer_closed |-> FALSE,
     accepted |-> 0, written |-> 0,
     delivered |-> <<>>, closes |-> 0, data_after_close |-> FALSE,
     closed_with |-> -1, unpaused_with |-> -1]

\* TcpClient.__init__.  timeout_ev is the state of the handle in
\* self._timeout_ev, sock that of self.sock, mask the events the loop
\* polls the fd for, and once_writable and once_error count the once
\* listeners of fd_writable and fd_error.  The other fields describe the
\* latest connect: whether check_ip refused it, whether it made a socket,
\* whether handle_connect or handle_conn_error ran for it, and the events
\* emitted since it was called.
NewClient ==
    [error_sent |-> FALSE, timeout_ev |-> "none", sock |-> "none",
     fd |-> 0, registered |-> FALSE, interesting |-> {}, mask |-> {},
     once_writable |-> 0, once_error |-> 0,
     connects |-> 0, refused |-> FALSE, created |-> FALSE,
     handled |-> FALSE, events |-> <<>>]

TcpIdle == sock = NewConnection(1) /\ client = NewClient

\* HttpServer.__init__: a listening TcpServer and no connection.  stops and
\* tcp_stops count the stop events of the HttpServer and of its TcpServer;
\* stopped_with is the number of exchanges without a complete response
\* when the HttpServer first emitted stop (-1: it did not).
NewServer ==
    [listening |-> TRUE, conns |-> <<>>, stops |-> 0, tcp_stops |-> 0,
     stopped_with |-> -1]

\* No message: nothing to parse, nothing parsed, nothing written.
NoMessage ==
    [original |-> <<>>, received |-> FALSE, events |-> <<>>,
     output_delimit |-> "NONE", out |-> <<>>]

\* thor/dns/__init__.py: the thread pool with no job submitted
NewResolver == [jobs |-> <<>>]

AppIdle ==
    server = NewServer /\ message = NoMessage /\ resolver = NewResolver

LoopIdle ==
    /\ sched_events = <<>> /\ now = 1 /\ ntimers = 0 /\ invoked = <<>>
    /\ reactor = NewReactor

PoolInit ==
    /\ cfg \in Configs
    /\ conn_counts = 0
    /\ idle_conns = <<>>
    /\ req_q = <<>>
    /\ exch = [e \in 1 .. NumExchanges |-> NewExchange]
    /\ tcp = [c \in Conn |-> NoTcp]
    /\ nconn = 0
    /\ CodecIdle /\ LoopIdle /\ EventsIdle /\ TcpIdle /\ AppIdle

Commit(T) ==
    /\ conn_counts' = T.counts
    /\ idle_conns' = T.idle
    /\ req_q' = T.q
    /\ exch' = T.ex
    /\ tcp' = T.tcp
    /\ nconn' = T.nconn
    /\ UNCHANGED <<cfg, codecVars, loopVars, eventVars, tcpVars, appVars>>

RequestStart ==
    \E e \in Exch, m \in Methods, uri_ok \in BOOLEAN :
        /\ ~exch[e].started
        /\ Commit(request_start(PoolState, e, m, uri_ok))

RequestDone ==
    \E e \in Exch :
        /\ exch[e].started /\ ~exch[e].req_done
        /\ Commit(request_done(PoolState, e))

DnsDone ==
    \E e \in Exch, ok \in BOOLEAN :
        /\ exch[e].init = "dns"
        /\ Commit(_handle_dns(PoolState, e, ok))

Connect ==
    \E e \in Exch :
        /\ exch[e].init = "connecting" /\ nconn < MaxConns
        /\ Commit(initiate_handle_connect(PoolState, e))

ConnectFail ==
    \E e \in Exch, err_type \in {"socket", "access"} :
        /\ exch[e].init = "connecting"
        /\ Commit(initiate_handle_connect_error(PoolState, e, err_type))

ReconnectTimer ==
    \E e \in Exch :
        /\ exch[e].init = "resched"
        /\ Commit(_initiate_connection(PoolState, e))

Data ==
    \E c \in Conn, toks \in Reads :
        /\ tcp[c].tcp_connected /\ ~tcp[c].input_paused
        /\ tcp[c].data_l # 0
        /\ Commit(handle_input(PoolState, tcp[c].data_l, toks))

PeerClose ==
    \E c \in Conn :
        /\ tcp[c].tcp_connected
        /\ Commit(tcp_handle_close(PoolState, c))

Writable ==
    \E c \in Conn :
        /\ tcp[c].tcp_connected /\ tcp[c].write_buffer
        /\ Commit(tcp_handle_writable(PoolState, c))

IdleTimer ==
    \E c \in Conn :
        /\ tcp[c].idler # 0
        /\ Commit(idle_close(PoolState, c, tcp[c].idler))

RetryTimer ==
    \E e \in Exch :
        /\ exch[e].retry_ev > 0
        /\ Commit(_retry(PoolState, e))

PoolNext ==
    \/ RequestStart
    \/ RequestDone
    \/ DnsDone
    \/ Connect
    \/ ConnectFail
    \/ ReconnectTimer
    \/ Data
    \/ PeerClose
    \/ Writable
    \/ IdleTimer
    \/ RetryTimer

Spec == PoolInit /\ [][PoolNext]_vars

(***************************************************************************)
(* The pool under contention: one exchange more than the origin may have   *)
(* connections, and NumWaiters beyond it.  The application issues whole     *)
(* requests (request_start and request_done in one callback) and the       *)
(* server answers each with one whole response.                            *)
(***************************************************************************)
QueueConfigs ==
    [idle_timeout : {0, 1}, retry_limit : {0},
     max_server_conn : {MaxServerConn}, careful : {TRUE}]

QueueInit ==
    /\ cfg \in QueueConfigs
    /\ conn_counts = 0
    /\ idle_conns = <<>>
    /\ req_q = <<>>
    /\ exch = [e \in 1 .. MaxServerConn + NumWaiters |-> NewExchange]
    /\ tcp = [c \in Conn |-> NoTcp]
    /\ nconn = 0
    /\ CodecIdle /\ LoopIdle /\ EventsIdle /\ TcpIdle /\ AppIdle

Request ==
    \E e \in Exch :
        /\ ~exch[e].started
        /\ Commit(request_done(request_start(PoolState, e, "GET", TRUE), e))

Answer ==
    \E c \in Conn, toks \in WholeReads :
        /\ tcp[c].tcp_connected /\ ~tcp[c].input_paused
        /\ tcp[c].data_l # 0
        /\ Commit(handle_input(PoolState, tcp[c].data_l, toks))

QueueNext ==
    \/ Request
    \/ DnsDone
    \/ Connect
    \/ ConnectFail
    \/ ReconnectTimer
    \/ Answer
    \/ PeerClose
    \/ Writable
    \/ IdleTimer

SpecQueue == QueueInit /\ [][QueueNext]_vars

(***************************************************************************)
(* The chunked decoder as a state machine: the server encodes a body,      *)
(* cut into chunks, and the bytes arrive in slices of any length.          *)
(***************************************************************************)
RECURSIVE Sum(_)
Sum(q) == IF q = <<>> THEN 0 ELSE Head(q) + Sum(Tail(q))

Bodies == UNION {[1 .. n -> DataBytes] : n \in 0 .. MaxBody}

Chunkings(n) ==
    {q \in UNION {[1 .. k -> 1 .. n] : k \in 0 .. n} : Sum(q) = n}

ChunkedInit ==
    /\ sent \in Bodies
    /\ \E sizes \in Chunkings(Len(sent)) : wire = Encode(sent, sizes)
    /\ codec = NewCodec
    /\ PoolIdle /\ LoopIdle /\ EventsIdle /\ TcpIdle /\ AppIdle

Feed ==
    \E k \in 1 .. Len(wire) :
        /\ codec' = handle_input_bytes(codec, SubSeq(wire, 1, k))
        /\ wire' = SubSeq(wire, k + 1, Len(wire))
        /\ UNCHANGED <<sent, poolVars, loopVars, eventVars, tcpVars, appVars>>

ChunkedNext == Feed

SpecChunked == ChunkedInit /\ [][ChunkedNext]_vars

(***************************************************************************)
(* The header parser as a state machine: a response head of up to          *)
(* MaxFields field lines, followed by some bytes, arrives in slices of any *)
(* length at a handler that is WAITING.  sent describes the response: for  *)
(* every field line its bytes and what they mean (num is <<n>> for a       *)
(* Content-Length that is the number n and <<>> for any other, codes the   *)
(* transfer codings of a Transfer-Encoding), and the careful flag of the   *)
(* handler and the allows_body answer of its input_start.                  *)
(***************************************************************************)
Field(name, sep, value, kind, num, codes) ==
    [name |-> name, sep |-> sep, value |-> value, kind |-> kind,
     num |-> num, codes |-> codes]

LengthField(name, value, num) == Field(name, <<":">>, value, "cl", num, <<>>)
CodingField(value, codes) ==
    Field("Transfer-Encoding", <<":">>, value, "te", <<>>, codes)

HeadFields ==
    {LengthField("Content-Length", <<SP, "1">>, <<1>>),
     LengthField("Content-Length", <<"0", "1">>, <<1>>),
     LengthField("content-length", <<"1">>, <<1>>),
     LengthField("Content-Length", <<"2">>, <<2>>),
     LengthField("Content-Length", <<"x">>, <<>>),
     LengthField("Content-Length", <<"-", "1">>, <<>>),
     CodingField(<<"chunked">>, <<"chunked">>),
     CodingField(<<SP, "gzip">>, <<"gzip">>),
     CodingField(<<"gzip", ",", SP, "Chunked">>, <<"gzip", "chunked">>),
     CodingField(<<"chunked", ",", "gzip">>, <<"chunked", "gzip">>),
     Field("X", <<SP, ":">>, <<"z">>, "x", <<>>, <<>>)}

HeadTails ==
    {<<>>, <<"z">>, <<"z", "z">>, <<"z", CR, LF>>, Encode(<<"z">>, <<1>>)}

Heads1 ==
    [fields : UNION {[1 .. n -> HeadFields] : n \in 0 .. MaxFields},
     tail : HeadTails, careful : BOOLEAN, allows_body : BOOLEAN]

RECURSIVE FieldWire(_)
FieldWire(fields) ==
    IF fields = <<>> THEN <<>>
    ELSE <<Head(fields).name>> \o Head(fields).sep \o Head(fields).value
             \o <<CR, LF>> \o FieldWire(Tail(fields))

HeadWire(m) ==
    <<"HTTP/1.1 200 OK", CR, LF>> \o FieldWire(m.fields) \o <<CR, LF>>
        \o m.tail

HeadInit ==
    /\ sent \in Heads1
    /\ wire = HeadWire(sent)
    /\ codec = [NewCodec EXCEPT !.input_state = "WAITING",
                                !.input_delimit = "NONE",
                                !.careful = sent.careful,
                                !.allows_body = sent.allows_body]
    /\ PoolIdle /\ LoopIdle /\ EventsIdle /\ TcpIdle /\ AppIdle

HeadNext == Feed

SpecHead == HeadInit /\ [][HeadNext]_vars

(***************************************************************************)
(* A whole HTTP/1.1 response that HttpMessageHandler parses and that is    *)
(* written out again from what the parser reported (thor/http/common.py):  *)
(* input_start becomes output_start with the same start line, header       *)
(* tuples and delimiter, every input_body an output_body, input_end an     *)
(* output_end with the same trailers.  The start line, a header name and   *)
(* the token chunked are single bytes of the model.                        *)
(***************************************************************************)
CRLF == <<CR, LF>>
TopLine == <<"HTTP/1.1 200 OK">>
FieldLine(name, gap, value) == <<name, ":">> \o gap \o value

\* the responses: gap is what follows the colon of every field line
Messages ==
    [gap : {<<>>, <<SP>>}, extra : BOOLEAN, delimit : {"COUNTED"},
     body : Bodies, sizes : {<<>>}, trailer : {FALSE}]
    \cup UNION {[gap : {<<>>, <<SP>>}, extra : BOOLEAN, delimit : {"CHUNKED"},
                 body : {B}, sizes : Chunkings(Len(B)), trailer : BOOLEAN] :
                    B \in Bodies}

Wire(m) ==
    LET extra == IF m.extra THEN FieldLine("X", m.gap, <<"z">>) \o CRLF
                 ELSE <<>>
        enc   == Encode(m.body, m.sizes)
    IN  TopLine \o CRLF \o extra \o
        (IF m.delimit = "COUNTED"
         THEN FieldLine("Content-Length", m.gap, <<HexChars[Len(m.body) + 1]>>)
                  \o CRLF \o CRLF \o m.body
         ELSE FieldLine("Transfer-Encoding", m.gap, <<"chunked">>)
                  \o CRLF \o CRLF \o
              (IF m.trailer
               THEN SubSeq(enc, 1, Len(enc) - 2)
                        \o FieldLine("T", m.gap, <<"z">>) \o CRLF \o CRLF
               ELSE enc))

\* the values of the fields called name, stripped
field_values(hdr_tuples, name) ==
    [k \in 1 .. Len(SelectSeq(hdr_tuples, LAMBDA h : strip(h.fn) = <<name>>))
        |-> strip(SelectSeq(hdr_tuples,
                            LAMBDA h : strip(h.fn) = <<name>>)[k].fv)]

\* HttpMessageHandler._handle_counted for the bytes after the header block
message_handle_counted(inbytes, left) ==
    IF left <= Len(inbytes)
    THEN <<[kind |-> "body", chunk |-> SubSeq(inbytes, 1, left)],
           [kind |-> "end", trailers |-> <<>>]>>
    ELSE <<[kind |-> "body", chunk |-> inbytes]>>

\* HttpMessageHandler.handle_input of a whole message by a parser that is
\* WAITING: _split_headers, _parse_headers, then the body handler of the
\* delimiter.  The result is the sequence of the parser's reports.
message_handle_input(inbytes) ==
    LET t       == _split_headers(inbytes)
        lines   == splitlines(t.headers)
        hdrs    == _parse_fields(Tail(lines))
        codes   == field_values(hdrs, "Transfer-Encoding")
        lengths == field_values(hdrs, "Content-Length")
        delimit == IF codes # <<>>
                   THEN (IF codes[Len(codes)] = <<"chunked">>
                         THEN "CHUNKED" ELSE "CLOSE")
                   ELSE IF lengths # <<>> THEN "COUNTED" ELSE "CLOSE"
        start   == [kind |-> "start", top_line |-> Head(lines),
                    hdr_tuples |-> hdrs, delimit |-> delimit]
        C       == handle_input_bytes(NewCodec, t.rest)
    IN  IF ~t.found THEN <<>>
        ELSE CASE delimit = "COUNTED" ->
                      <<start>> \o message_handle_counted(
                                       t.rest, int16(lengths[Len(lengths)]))
               [] delimit = "CHUNKED" ->
                      <<start>>
                      \o [k \in 1 .. Len(C.chunks) |->
                              [kind |-> "body", chunk |-> C.chunks[k]]]
                      \o (IF C.ends > 0
                          THEN <<[kind |-> "end", trailers |-> C.trailers]>>
                          ELSE <<>>)
               [] OTHER ->
                      <<start, [kind |-> "body", chunk |-> t.rest]>>

\* linesep.join(lines)
RECURSIVE Join(_)
Join(lines) ==
    IF lines = <<>> THEN <<>>
    ELSE IF Len(lines) = 1 THEN Head(lines)
    ELSE Head(lines) \o CRLF \o Join(Tail(lines))

\* b"%s: %s" % (k.strip(), v)
output_field(h) == strip(h.fn) \o <<":", SP>> \o h.fv

\* HttpMessageHandler.output_start: the bytes it writes
output_start(top_line, hdr_tuples) ==
    Join(<<top_line>>
         \o [k \in 1 .. Len(hdr_tuples) |-> output_field(hdr_tuples[k])]
         \o <<<<>>, <<>>>>)

\* HttpMessageHandler.output_body: the bytes it writes
output_body(chunk, delimit) ==
    IF chunk = <<>> \/ delimit = "NONE" THEN <<>>
    ELSE IF delimit = "CHUNKED"
    THEN <<HexChars[Len(chunk) + 1]>> \o CRLF \o chunk \o CRLF
    ELSE chunk

\* HttpMessageHandler.output_end: the bytes it writes
output_end(trailers, delimit) ==
    IF delimit = "CHUNKED"
    THEN <<"0">> \o CRLF
         \o Join([k \in 1 .. Len(trailers) |-> output_field(trailers[k])])
         \o CRLF
    ELSE <<>>

RoundTripInit ==
    /\ message \in {[NoMessage EXCEPT !.original = Wire(m)] : m \in Messages}
    /\ server = NewServer /\ resolver = NewResolver
    /\ PoolIdle /\ CodecIdle /\ LoopIdle /\ EventsIdle /\ TcpIdle

CommitMessage(M) ==
    /\ message' = M
    /\ UNCHANGED <<server, resolver, poolVars, codecVars, loopVars,
                   eventVars, tcpVars>>

Receive ==
    /\ ~message.received
    /\ CommitMessage([message EXCEPT
           !.received = TRUE,
           !.events = message_handle_input(message.original)])

NextEvent(kind) == message.events # <<>> /\ Head(message.events).kind = kind

OutputStart ==
    /\ NextEvent("start")
    /\ LET ev == Head(message.events)
       IN  CommitMessage([message EXCEPT
               !.events = Tail(@),
               !.output_delimit = ev.delimit,
               !.out = @ \o output_start(ev.top_line, ev.hdr_tuples)])

OutputBody ==
    /\ NextEvent("body")
    /\ CommitMessage([message EXCEPT
           !.events = Tail(@),
           !.out = @ \o output_body(Head(message.events).chunk,
                                    message.output_delimit)])

OutputEnd ==
    /\ NextEvent("end")
    /\ CommitMessage([message EXCEPT
           !.events = Tail(@),
           !.out = @ \o output_end(Head(message.events).trailers,
                                   message.output_delimit)])

RoundTripNext ==
    \/ Receive
    \/ OutputStart
    \/ OutputBody
    \/ OutputEnd

SpecRoundTrip == RoundTripInit /\ [][RoundTripNext]_vars

(***************************************************************************)
(* The reactor's timers as a state machine.                                *)
(***************************************************************************)
\* the loop is running: run() was called on the new reactor
LoopInit ==
    /\ sched_events = <<>> /\ now = 1 /\ ntimers = 0 /\ invoked = <<>>
    /\ reactor = [NewReactor EXCEPT !.running = TRUE, !.last_emit = "start"]
    /\ PoolIdle /\ CodecIdle /\ EventsIdle /\ TcpIdle /\ AppIdle

CommitLoop(L) ==
    /\ sched_events' = L.sched
    /\ now' = L.now
    /\ ntimers' = L.n
    /\ invoked' = L.invoked
    /\ reactor' = [handles |-> L.handles, running |-> L.running,
                   fd_targets |-> L.fd_targets, last_emit |-> L.last_emit,
                   epoch |-> L.epoch, changed |-> L.changed]
    /\ UNCHANGED <<poolVars, codecVars, eventVars, tcpVars, appVars>>

Schedule ==
    \E delta \in 0 .. MaxDelta :
        /\ ntimers < MaxTimers
        /\ CommitLoop(schedule(LoopState, delta, [op |-> "noop"]))

Delete ==
    \E i \in 1 .. Len(sched_events) :
        CommitLoop(delete(LoopState, sched_events[i].id))

Tick ==
    /\ now < MaxTime
    /\ CommitLoop([LoopState EXCEPT !.now = @ + 1])

TimerPass ==
    /\ reactor.running
    /\ CommitLoop(timer_pass([LoopState EXCEPT !.invoked = <<>>], 0))

LoopNext ==
    \/ Schedule
    \/ Delete
    \/ Tick
    \/ TimerPass

SpecLoop == LoopInit /\ [][LoopNext]_vars

(***************************************************************************)
(* The reactor with timers whose callbacks act on it, run and stop.        *)
(***************************************************************************)
Callbacks ==
    {[op |-> "noop"], [op |-> "stop"], [op |-> "delete_self"],
     [op |-> "delete_next"]}

Fds == 1 .. MaxFds

TimersInit ==
    LoopIdle /\ PoolIdle /\ CodecIdle /\ EventsIdle /\ TcpIdle /\ AppIdle

ScheduleCallback ==
    \E delta \in 0 .. MaxDelta, cb \in Callbacks :
        /\ ntimers < MaxHandles
        /\ CommitLoop(schedule(LoopState, delta, cb))

DeleteHandle ==
    \E h \in 1 .. ntimers : CommitLoop(delete(LoopState, h))

RegisterFd ==
    \E fd \in Fds \ reactor.fd_targets :
        CommitLoop([LoopState EXCEPT !.fd_targets = @ \cup {fd}])

Run ==
    /\ ~reactor.running
    /\ CommitLoop(run(LoopState))

Stop ==
    /\ reactor.epoch < MaxStops
    /\ CommitLoop(stop(LoopState))

TimersNext ==
    \/ ScheduleCallback
    \/ DeleteHandle
    \/ RegisterFd
    \/ Tick
    \/ Run
    \/ TimerPass
    \/ Stop

SpecTimers == TimersInit /\ [][TimersNext]_vars

(***************************************************************************)
(* The reactor with up to MaxPending timers that do nothing or stop it.    *)
(***************************************************************************)
StopCallbacks == {[op |-> "noop"], [op |-> "stop"]}

ScheduleDue ==
    \E delta \in 0 .. 1, cb \in StopCallbacks :
        /\ ntimers < MaxPending
        /\ CommitLoop(schedule(LoopState, delta, cb))

StopNext ==
    \/ ScheduleDue
    \/ Tick
    \/ Run
    \/ TimerPass

SpecStop == TimersInit /\ [][StopNext]_vars

(***************************************************************************)
(* The event emitter as a state machine.  Every registration is of a new   *)
(* listener.                                                               *)
(***************************************************************************)
Listeners == 1 .. MaxListeners

ListenerBodies ==
    {[op |-> "noop"], [op |-> "emit"], [op |-> "remove_listeners_event"],
     [op |-> "remove_listeners_all"]}
        \cup {[op |-> "remove_listener", target |-> t] : t \in Listeners}

EventsInit ==
    EventsIdle /\ PoolIdle /\ CodecIdle /\ LoopIdle /\ TcpIdle /\ AppIdle

CommitEmitter(Em) ==
    /\ emitter' = Em
    /\ UNCHANGED <<poolVars, codecVars, loopVars, tcpVars, appVars>>

On ==
    \E once \in BOOLEAN, body \in ListenerBodies :
        /\ Len(emitter.regs) < MaxListeners
        /\ CommitEmitter(on(Fresh(emitter), once, body))

Emit == CommitEmitter(emit_outermost(emitter))

RemoveListener(l) ==
    CommitEmitter(remove_listener(Fresh(emitter), l, FALSE))

RemoveListeners ==
    \/ CommitEmitter(collect(Fresh(remove_listeners_event(emitter))))
    \/ CommitEmitter(collect(Fresh(remove_listeners_all(emitter))))

EventsNext ==
    \/ On
    \/ Emit
    \/ \E l \in Listeners : RemoveListener(l)
    \/ RemoveListeners

SpecEvents == EventsInit /\ [][EventsNext]_vars

(***************************************************************************)
(* TcpConnection (thor/tcp.py) on the epoll loop.  A handler takes the     *)
(* outcome of its system call as an argument.                              *)
(***************************************************************************)
\* EventSource.event_add; EpollLoop.event_add looks the fd up among the
\* loop's targets and raises KeyError when it is not there
event_add(C, event) ==
    IF event \in C.interesting THEN C
    ELSE [C EXCEPT !.interesting = @ \cup {event},
                   !.raised = @ \/ ~C.registered]

\* EventSource.event_del; EpollLoop.event_del ignores an unknown fd
event_del(C, event) == [C EXCEPT !.interesting = @ \ {event}]

\* EventSource.unregister_fd: "if self._fd:" does nothing for fd 0
unregister_fd(C) ==
    IF C.fd # 0 /\ C.registered THEN [C EXCEPT !.registered = FALSE] ELSE C

\* a _close that leaves the fd and its listeners in place
_close_keeps_fd(C) ==
    [C EXCEPT !.tcp_connected = FALSE, !.socket_open = FALSE]

\* TcpConnection._close
_close(C) ==
    unregister_fd([C EXCEPT !.tcp_connected = FALSE, !.handlers = FALSE,
                            !.socket_open = FALSE])

\* TcpConnection._handle_close: _close, then emit("close")
_handle_close(C) ==
    [_close(C) EXCEPT !.closes = IF @ < 2 THEN @ + 1 ELSE @]


\* what socket.recv can do on the connection
RecvResults(C) ==
    IF ~C.socket_open THEN {[kind |-> "close_err"]}
    ELSE {[kind |-> "close_err"], [kind |-> "other_err"]}
         \cup {[kind |-> "data", n |-> n] :
                   n \in 1 .. Min(read_bufsize, Len(C.inbound))}
         \cup (IF C.inbound = <<>> /\ C.peer_closed
               THEN {[kind |-> "eof"]} ELSE {})
         \cup (IF C.inbound = <<>> /\ ~C.peer_closed
               THEN {[kind |-> "block_err"]} ELSE {})

\* TcpConnection.handle_readable
handle_readable(C, r) ==
    CASE r.kind = "block_err" -> C
      [] r.kind = "close_err" -> _handle_close(C)
      [] r.kind = "other_err" -> [C EXCEPT !.raised = TRUE]
      [] r.kind = "eof" -> _handle_close(C)
      [] r.kind = "data" ->
            [C EXCEPT !.inbound = SubSeq(@, r.n + 1, Len(@)),
                      !.delivered = @ \o SubSeq(C.inbound, 1, r.n),
                      !.data_after_close = @ \/ C.closes > 0]

\* what socket.send can do with total bytes
SendResults(C, total) ==
    IF ~C.socket_open THEN {[kind |-> "close_err"]}
    ELSE {[kind |-> "close_err"], [kind |-> "other_err"],
          [kind |-> "block_err"]}
         \cup {[kind |-> "sent", n |-> n] : n \in 1 .. total}

\* TcpConnection.handle_writable after the send
after_send(C) ==
    LET C1 == IF C.output_paused /\ Len(C.write_buffer) < write_bufsize
              THEN [C EXCEPT !.output_paused = FALSE,
                             !.unpaused_with =
                                 IF @ = -1 THEN Sum(C.write_buffer) ELSE @]
              ELSE C
        C2 == IF C1.closing
              THEN [_close(C1) EXCEPT
                       !.closed_with = IF @ = -1 THEN Sum(C1.write_buffer)
                                       ELSE @]
              ELSE C1
    IN  IF C2.write_buffer = <<>> THEN event_del(C2, "fd_writable") ELSE C2

\* TcpConnection.handle_writable
handle_writable(C, r) ==
    LET total == Sum(C.write_buffer)
    IN  IF C.write_buffer = <<>> THEN after_send(C)
        ELSE CASE r.kind = "block_err" -> C
               [] r.kind = "close_err" -> _handle_close(C)
               [] r.kind = "other_err" -> [C EXCEPT !.raised = TRUE]
               [] r.kind = "sent" ->
                     after_send([C EXCEPT
                         !.write_buffer = IF r.n < total
                                          THEN <<total - r.n>> ELSE <<>>,
                         !.accepted = @ + r.n])

\* TcpConnection.write of n bytes
write(C, n) ==
    LET C1 == [C EXCEPT !.write_buffer = Append(@, n), !.written = @ + n]
        C2 == IF Len(C1.write_buffer) > write_bufsize
              THEN [C1 EXCEPT !.output_paused = TRUE] ELSE C1
    IN  event_add(C2, "fd_writable")

\* TcpConnection.pause
pause(C, paused) ==
    LET C1 == IF paused THEN event_del(C, "fd_readable")
              ELSE event_add(C, "fd_readable")
    IN  IF C1.raised THEN C1 ELSE [C1 EXCEPT !.input_paused = paused]

\* TcpConnection.close
close(C) ==
    LET C1 == pause(C, TRUE)
    IN  IF C1.write_buffer # <<>> THEN [C1 EXCEPT !.closing = TRUE]
        ELSE _close(C1)

(***************************************************************************)
(* The connection as a state machine: the peer sends and shuts down, the   *)
(* loop reports fd events the connection is interested in, and the         *)
(* application writes, pauses and closes.                                  *)
(***************************************************************************)
TcpInit ==
    /\ sock \in {NewConnection(fd) : fd \in 0 .. MaxFds}
    /\ client = NewClient
    /\ PoolIdle /\ CodecIdle /\ LoopIdle /\ EventsIdle /\ AppIdle

CommitTcp(C) ==
    /\ sock' = C
    /\ UNCHANGED <<client, poolVars, codecVars, loopVars, eventVars, appVars>>

\* the operation about to run has raised nothing yet
Calm == [sock EXCEPT !.raised = FALSE]

PeerSend ==
    /\ sock.socket_open /\ ~sock.peer_closed
    /\ sock.arrived < MaxIn
    /\ CommitTcp([sock EXCEPT !.inbound = Append(@, sock.arrived + 1),
                              !.arrived = @ + 1])

PeerShutdown ==
    /\ sock.socket_open /\ ~sock.peer_closed
    /\ CommitTcp([sock EXCEPT !.peer_closed = TRUE])

\* LoopBase._fd_event("fd_readable", fd)
FdReadable ==
    /\ sock.registered /\ sock.handlers
    /\ "fd_readable" \in sock.interesting
    /\ \E r \in RecvResults(sock) : CommitTcp(handle_readable(Calm, r))

\* LoopBase._fd_event("fd_writable", fd)
FdWritable ==
    /\ sock.registered /\ sock.handlers
    /\ "fd_writable" \in sock.interesting
    /\ \E r \in SendResults(sock, Sum(sock.write_buffer)) :
           CommitTcp(handle_writable(Calm, r))

\* LoopBase._fd_event("fd_close", fd): the peer hung up
FdClose ==
    /\ sock.registered /\ sock.handlers
    /\ sock.peer_closed
    /\ CommitTcp(_handle_close(Calm))

Write ==
    \E n \in 1 .. MaxChunk :
        /\ sock.written + n <= MaxOut
        /\ CommitTcp(write(Calm, n))

Pause == \E paused \in BOOLEAN : CommitTcp(pause(Calm, paused))

Close == CommitTcp(close(Calm))

TcpNext ==
    \/ PeerSend
    \/ PeerShutdown
    \/ FdReadable
    \/ FdWritable
    \/ FdClose
    \/ Write
    \/ Pause
    \/ Close

SpecTcp == TcpInit /\ [][TcpNext]_vars

(***************************************************************************)
(* TcpClient (thor/tcp.py) on the epoll loop.                              *)
(***************************************************************************)
\* ScheduledEvent.delete of the connect timeout
timeout_delete(Cl) ==
    IF Cl.timeout_ev = "scheduled" THEN [Cl EXCEPT !.timeout_ev = "deleted"]
    ELSE Cl

\* EventSource.event_add on the client: the loop's event mask is brought
\* up to date only when the event is new to the client
client_event_add(Cl, event) ==
    IF event \in Cl.interesting THEN Cl
    ELSE [Cl EXCEPT !.interesting = @ \cup {event},
                    !.mask = Cl.interesting \cup {event}]

\* EventSource.register_fd(fd, event): EpollLoop.register_fd with no
\* events, then event_add(event)
register_fd(Cl, fd, event) ==
    client_event_add([Cl EXCEPT !.fd = fd, !.registered = TRUE,
                                !.mask = {}], event)

\* TcpClient.handle_conn_error
handle_conn_error(Cl, err_type, err_id) ==
    LET Cl1 == [timeout_delete(Cl) EXCEPT !.handled = TRUE]
        Cl2 == unregister_fd([Cl1 EXCEPT !.error_sent = TRUE])
    IN  IF Cl1.error_sent THEN Cl1
        ELSE [Cl2 EXCEPT !.events = Append(@, [name |-> "connect_error",
                                               err_type |-> err_type,
                                               err_id |-> err_id]),
                         !.sock = IF @ = "none" THEN @ ELSE "closed"]

\* TcpClient.handle_socket_error
handle_socket_error(Cl, err_id) == handle_conn_error(Cl, "socket", err_id)

\* TcpClient.handle_fd_error
handle_fd_error(Cl) == handle_conn_error(Cl, "socket", "SO_ERROR")

\* TcpClient.handle_connect; err: SO_ERROR is set
handle_connect(Cl, err) ==
    LET Cl1 == [timeout_delete(unregister_fd(Cl)) EXCEPT !.handled = TRUE]
    IN  IF Cl1.error_sent THEN Cl1
        ELSE IF err THEN handle_socket_error(Cl1, "SO_ERROR")
        ELSE [Cl1 EXCEPT !.events = Append(@, [name |-> "connect"])]

\* TcpClient.connect_dns.  timeout: a connect timeout is given; check:
\* what check_ip answers ("none": no check_ip is set); fd: the file
\* descriptor of the new socket; ex: what connect_ex does
connect_dns(Cl, timeout, check, fd, ex) ==
    LET Cl0 == [Cl EXCEPT !.connects = @ + 1, !.refused = FALSE,
                          !.created = FALSE, !.handled = FALSE,
                          !.events = <<>>]
        Cl1 == IF timeout THEN [Cl0 EXCEPT !.timeout_ev = "scheduled"]
               ELSE Cl0
        Cl2 == [Cl1 EXCEPT !.sock = "open", !.created = TRUE,
                           !.once_error = @ + 1]
        Cl3 == client_event_add(register_fd(Cl2, fd, "fd_writable"),
                                "fd_error")
        Cl4 == [Cl3 EXCEPT !.once_writable = @ + 1]
    IN  IF check = "refuse"
        THEN handle_conn_error([Cl1 EXCEPT !.refused = TRUE], "access", "0")
        ELSE IF ex = "EINPROGRESS" THEN Cl4
        ELSE handle_socket_error(Cl4, ex)

(***************************************************************************)
(* The client as a state machine: connect_dns is called when no connect    *)
(* is under way, the loop reports fd events of the client's socket, and    *)
(* the connect timeout expires.                                            *)
(***************************************************************************)
ClientInit ==
    /\ client = NewClient
    /\ sock = NewConnection(1)
    /\ PoolIdle /\ CodecIdle /\ LoopIdle /\ EventsIdle /\ AppIdle

CommitClient(Cl) ==
    /\ client' = Cl
    /\ UNCHANGED <<sock, poolVars, codecVars, loopVars, eventVars, appVars>>

\* the latest connect has come to its end
Over == client.connects = 0 \/ client.handled

ConnectDns ==
    \E timeout \in BOOLEAN, check \in {"none", "accept", "refuse"},
       fd \in 0 .. MaxFds, ex \in {"EINPROGRESS", "errno", "0"} :
        /\ Over
        /\ client.connects < MaxConnects
        /\ CommitClient(connect_dns(client, timeout, check, fd, ex))

\* LoopBase._fd_event("fd_writable", fd): the once listener handle_connect
ClientWritable ==
    /\ client.registered /\ client.sock = "open"
    /\ "fd_writable" \in client.mask
    /\ client.once_writable > 0
    /\ \E err \in BOOLEAN :
           CommitClient(handle_connect(
               [client EXCEPT !.once_writable = @ - 1], err))

\* LoopBase._fd_event("fd_error", fd): the once listener handle_fd_error
ClientFdError ==
    /\ client.registered /\ client.sock = "open"
    /\ client.once_error > 0
    /\ CommitClient(handle_fd_error([client EXCEPT !.once_error = @ - 1]))

\* the loop runs the connect timeout: handle_socket_error(ETIMEDOUT)
ConnectTimeout ==
    /\ client.timeout_ev = "scheduled"
    /\ CommitClient(handle_socket_error(
           [client EXCEPT !.timeout_ev = "fired"], "ETIMEDOUT"))

ClientNext ==
    \/ ConnectDns
    \/ ClientWritable
    \/ ClientFdError
    \/ ConnectTimeout

SpecClient == ClientInit /\ [][ClientNext]_vars

(***************************************************************************)
(* HttpServer (thor/http/server.py) on a TcpServer (thor/tcp.py).  A        *)
(* connection is the record of an HttpServerConnection: open says that     *)
(* its TcpConnection is connected, tcp_conn that the HttpServerConnection  *)
(* still refers to it; an exchange in ex_queue records whether             *)
(* request_start was emitted for it and whether the application has        *)
(* called response_done.  Requests carry no body.                          *)
(***************************************************************************)
\* idler: an idle timer is pending (self._idler).  The other fields past
\* input_state describe the latest request head given to input_start: its
\* kind, whether the exchange event was emitted for it, the error event
\* emitted on the connection, the status code of the response input_error
\* wrote, and the exception that escaped from the handler.
NewServerConnection ==
    [open |-> TRUE, tcp_conn |-> TRUE, ex_queue |-> <<>>,
     output_paused |-> FALSE, input_state |-> "WAITING", idler |-> FALSE,
     head |-> "", exchange |-> FALSE, error |-> "", status |-> "",
     raised |-> ""]

NewServerExchange == [started |-> FALSE, responded |-> FALSE]

\* the exchanges of the server that have no complete response
Outstanding(Sv) ==
    {<<c, i>> \in (1 .. MaxAccepts) \X (1 .. MaxPipeline) :
        /\ c <= Len(Sv.conns) /\ i <= Len(Sv.conns[c].ex_queue)
        /\ ~Sv.conns[c].ex_queue[i].responded}

\* TcpServer.handle_accept and HttpServer.handle_conn
handle_conn(Sv) == [Sv EXCEPT !.conns = Append(@, NewServerConnection)]

\* The error classes of thor/http/error.py that a request can raise:
\* server_status is a pair of str, or None
Str(code) == [type |-> "str", code |-> code]
Bytes(code) == [type |-> "bytes", code |-> code]
None == [type |-> "None", code |-> ""]

HttpVersionError ==
    [name |-> "HttpVersionError", server_status |-> Str("505"),
     server_recoverable |-> FALSE]
TransferCodeError ==
    [name |-> "TransferCodeError", server_status |-> Str("501"),
     server_recoverable |-> FALSE]
HostRequiredError ==
    [name |-> "HostRequiredError", server_status |-> None,
     server_recoverable |-> TRUE]
ChunkError ==
    [name |-> "ChunkError", server_status |-> None,
     server_recoverable |-> FALSE]

\* HttpServerConnection.input_error.  A recoverable error is only reported,
\* as an error event of the connection.  Any other sets the state to ERROR
\* and is answered by an exchange of its own, after which the connection
\* is closed; response_start formats the status line with
\* b"HTTP/1.1 %s %s" % (status_code, status_phrase), which raises TypeError
\* for a status code that is a str, before anything is written.
server_input_error(Sv, c, err) ==
    IF err.server_recoverable
    THEN [Sv EXCEPT !.conns[c].error = err.name]
    ELSE LET Sv1 == [Sv EXCEPT !.conns[c].input_state = "ERROR"]
             status == IF err.server_status.type = "None"
                       THEN Bytes("500") ELSE err.server_status
         IN  IF status.type = "str"
             THEN [Sv1 EXCEPT !.conns[c].raised = "TypeError"]
             ELSE [Sv1 EXCEPT
                      !.conns[c].status = status.code,
                      !.conns[c].ex_queue =
                          Append(@, [started |-> FALSE, responded |-> TRUE]),
                      !.conns[c].open = FALSE,
                      !.conns[c].tcp_conn = FALSE]

\* HttpServerConnection.output_done: arm the idle timer.  (No code of the
\* package calls it.)
output_done(Sv, c) == [Sv EXCEPT !.conns[c].idler = TRUE]

\* the error that HttpServerConnection.input_start finds in a request head
\* with a bad request line ("badline"), no Host header ("nohost") or a
\* transfer coding that is neither identity nor chunked ("badcode")
head_error(head) ==
    CASE head = "badline" -> HttpVersionError
      [] head = "nohost"  -> HostRequiredError
      [] head = "badcode" -> TransferCodeError

\* HttpServerConnection.input_start, for a request head that is well formed
\* ("ok", and "badchunk"), or has one of the errors above.  A head that was
\* accepted is followed by input_end, since the request has no body, or
\* ("badchunk") by a chunked body that is malformed.
server_input_start(Sv, c, head) ==
    LET Sv0 == [Sv EXCEPT !.conns[c].idler = FALSE,
                          !.conns[c].head = head,
                          !.conns[c].exchange = FALSE,
                          !.conns[c].error = "",
                          !.conns[c].status = "",
                          !.conns[c].raised = ""]
        Sv1 == [Sv0 EXCEPT
                   !.conns[c].ex_queue =
                       Append(@, [NewServerExchange EXCEPT
                                     !.started = ~Sv.conns[c].output_paused]),
                   !.conns[c].exchange = TRUE]
    IN  CASE head \in {"badline", "nohost", "badcode"} ->
                server_input_error(Sv0, c, head_error(head))
          [] head = "badchunk" -> server_input_error(Sv1, c, ChunkError)
          [] OTHER -> Sv1

\* HttpServerConnection.drain_exchange_queue
drain_exchange_queue(Sv, c) ==
    [Sv EXCEPT !.conns[c].ex_queue =
        [i \in 1 .. Len(@) |-> [@[i] EXCEPT !.started = TRUE]]]

\* HttpServerConnection.res_body_pause
res_body_pause(Sv, c, paused) ==
    LET Sv1 == [Sv EXCEPT !.conns[c].output_paused = paused]
    IN  IF paused THEN Sv1 ELSE drain_exchange_queue(Sv1, c)

\* HttpServerExchange.response_done: output_end says whether the response
\* was delimited by the close of the connection
response_done(Sv, c, i, closes) ==
    LET Sv1 == [Sv EXCEPT !.conns[c].ex_queue[i].responded = TRUE]
    IN  IF closes /\ Sv1.conns[c].tcp_conn
        THEN [Sv1 EXCEPT !.conns[c].open = FALSE]
        ELSE Sv1

\* HttpServerConnection.conn_closed
conn_closed(Sv, c) ==
    [Sv EXCEPT !.conns[c].open = FALSE, !.conns[c].tcp_conn = FALSE,
               !.conns[c].ex_queue = <<>>]

\* TcpServer.shutdown
tcp_server_shutdown(Sv) ==
    [Sv EXCEPT !.listening = FALSE, !.tcp_stops = @ + 1]

\* HttpServer.shutdown
shutdown(Sv) ==
    [tcp_server_shutdown(Sv) EXCEPT
        !.stops = @ + 1,
        !.stopped_with = IF @ = -1 THEN Cardinality(Outstanding(Sv)) ELSE @]

(***************************************************************************)
(* The server as a state machine: clients connect, send requests and       *)
(* close; the application answers and shuts the server down.               *)
(***************************************************************************)
ServerInit ==
    /\ server = NewServer /\ message = NoMessage /\ resolver = NewResolver
    /\ PoolIdle /\ CodecIdle /\ LoopIdle /\ EventsIdle /\ TcpIdle

CommitServer(Sv) ==
    /\ server' = Sv
    /\ UNCHANGED <<message, resolver, poolVars, codecVars, loopVars,
                   eventVars, tcpVars>>

ServerConns == 1 .. Len(server.conns)

RequestHeads == {"ok", "nohost", "badline", "badcode", "badchunk"}

Accept ==
    /\ server.listening /\ Len(server.conns) < MaxAccepts
    /\ CommitServer(handle_conn(server))

RequestHead ==
    \E c \in ServerConns, head \in RequestHeads :
        /\ server.conns[c].open /\ server.conns[c].input_state = "WAITING"
        /\ Len(server.conns[c].ex_queue) < MaxPipeline
        /\ CommitServer(server_input_start(server, c, head))

ResponseDone ==
    \E c \in ServerConns, closes \in BOOLEAN :
        \E i \in 1 .. Len(server.conns[c].ex_queue) :
            /\ server.conns[c].ex_queue[i].started
            /\ ~server.conns[c].ex_queue[i].responded
            /\ CommitServer(response_done(server, c, i, closes))

ResBodyPause ==
    \E c \in ServerConns, paused \in BOOLEAN :
        /\ server.conns[c].open
        /\ CommitServer(res_body_pause(server, c, paused))

ConnClosed ==
    \E c \in ServerConns :
        /\ server.conns[c].open
        /\ CommitServer(conn_closed(server, c))

Shutdown ==
    /\ server.stops < MaxShutdowns
    /\ CommitServer(shutdown(server))

ServerNext ==
    \/ Accept
    \/ RequestHead
    \/ ResponseDone
    \/ ResBodyPause
    \/ ConnClosed
    \/ Shutdown

SpecServer == ServerInit /\ [][ServerNext]_vars

(***************************************************************************)
(* thor/dns/__init__.py: lookup hands _lookup to a ThreadPoolExecutor and  *)
(* adds a done-callback to the Future it gets.  Two threads act on a job:  *)
(* the reactor thread, which calls lookup, and the worker thread that runs *)
(* _lookup.  A Future runs a done-callback on the thread that completes    *)
(* it, or at once on the thread that adds the callback when it is already  *)
(* complete.  A job records the state of its Future, its result, the state *)
(* of the callback, and the thread that ran the callback (cb_thread); the  *)
(* callback is HttpConnectionInitiate._handle_dns, which makes a TcpClient *)
(* on the loop and registers its fd, or reports the error to the exchange  *)
(* and the pool: core records which of the two it did.                     *)
(***************************************************************************)
NewJob ==
    [future |-> "pending", ok |-> TRUE, cb |-> "none", cb_thread |-> "none",
     core |-> "none"]

\* HttpConnectionInitiate._handle_dns, called with the result of job j
dns_handle(R, j) ==
    [R EXCEPT !.jobs[j].core =
        IF R.jobs[j].ok THEN "initiate_connection" ELSE "handle_error"]

\* done, the callback lookup adds to the Future, running on thread
done(R, j, thread) ==
    dns_handle([R EXCEPT !.jobs[j].cb = "ran",
                         !.jobs[j].cb_thread = thread], j)

\* lookup, first statement: _pool.submit(_lookup, host, port, proto)
lookup_submit(R) == [R EXCEPT !.jobs = Append(@, NewJob)]

\* lookup, last statement: job.add_done_callback(done)
lookup_add_done_callback(R, j) ==
    IF R.jobs[j].future = "finished" THEN done(R, j, "reactor")
    ELSE [R EXCEPT !.jobs[j].cb = "added"]

\* _lookup returns on a worker thread, with addresses or with the
\* gaierror it made of a DNSException; the Future is completed on that
\* thread and runs the callback it has
_lookup(R, j, ok) ==
    LET R1 == [R EXCEPT !.jobs[j].future = "finished", !.jobs[j].ok = ok]
    IN  IF R1.jobs[j].cb = "added" THEN done(R1, j, "worker") ELSE R1

(***************************************************************************)
(* The lookups as a state machine.  The reactor thread makes one lookup    *)
(* call at a time; the pool has POOL_SIZE = 10 workers, more than          *)
(* MaxLookups, so that every submitted job runs at once.                   *)
(***************************************************************************)
DnsInit ==
    /\ resolver = NewResolver /\ server = NewServer /\ message = NoMessage
    /\ PoolIdle /\ CodecIdle /\ LoopIdle /\ EventsIdle /\ TcpIdle

CommitResolver(R) ==
    /\ resolver' = R
    /\ UNCHANGED <<server, message, poolVars, codecVars, loopVars,
                   eventVars, tcpVars>>

Jobs == 1 .. Len(resolver.jobs)

LookupSubmit ==
    /\ Len(resolver.jobs) < MaxLookups
    /\ \A j \in Jobs : resolver.jobs[j].cb # "none"
    /\ CommitResolver(lookup_submit(resolver))

LookupAddDoneCallback ==
    \E j \in Jobs :
        /\ resolver.jobs[j].cb = "none"
        /\ CommitResolver(lookup_add_done_callback(resolver, j))

WorkerReturns ==
    \E j \in Jobs, ok \in BOOLEAN :
        /\ resolver.jobs[j].future = "pending"
        /\ CommitResolver(_lookup(resolver, j, ok))

DnsNext ==
    \/ LookupSubmit
    \/ LookupAddDoneCallback
    \/ WorkerReturns

SpecDns == DnsInit /\ [][DnsNext]_vars

(***************************************************************************)
(* Notions the properties are stated with.                                 *)
(***************************************************************************)
IdleSlots(c) == {i \in 1 .. Len(idle_conns) : idle_conns[i] = c}
InIdle(c) == IdleSlots(c) # {}
BoundTo(c) == {e \in Exch : exch[e].tcp_conn = c}
Open(c) == tcp[c].tcp_connected
Closed(c) == ~tcp[c].tcp_connected \/ tcp[c].closing
Pooled(c) == Open(c) /\ (InIdle(c) \/ BoundTo(c) # {})
NonIdempotent(e) == exch[e].started /\ exch[e].method \notin idempotent_methods
Idempotent(e) == exch[e].started /\ exch[e].method \in idempotent_methods

\* C1: conn_counts is the number of open connections of the origin, idle
\* plus bound to an exchange; in particular it is never negative.
C1_CountIsOpenConns ==
    /\ conn_counts >= 0
    /\ conn_counts = Cardinality({c \in Conn : Pooled(c)})

\* C2: neither the number of open connections of the origin nor conn_counts
\* ever exceeds max_server_conn.
C2_AtMostMaxServerConn ==
    /\ conn_counts <= cfg.max_server_conn
    /\ Cardinality({c \in Conn : Pooled(c)}) <= cfg.max_server_conn

\* C3: a connection that release_conn has let go of, with no waiter to take
\* it, is either on the idle list or closed, never both and never neither.
C3_IdleXorClosed ==
    \A c \in Conn :
        tcp[c].released => (InIdle(c) /\ ~Closed(c)) \/ (~InIdle(c) /\ Closed(c))

Owners(c) ==
    Cardinality(IdleSlots(c)) + Cardinality(BoundTo(c))
        + (IF tcp[c].closing THEN 1 ELSE 0)

C6_ExactlyOneOwner == \A c \in Conn : Open(c) => Owners(c) = 1

\* C7: no waiter stays queued while the origin has no connection and none
\* is being set up for it.
C7_NoStrandedWaiter ==
    req_q # <<>> =>
        \/ \E c \in Conn : Open(c)
        \/ \E e \in Exch : exch[e].init # "none" \/ exch[e].retry_ev > 0

(***************************************************************************)
(* Steps in which a connection failure is reported to exchange e.          *)
(***************************************************************************)
Surfaces(e, err) == exch'[e].log = Append(exch[e].log, err)

LookupFailed(e) ==
    exch[e].init = "dns" /\ Commit(_handle_dns(PoolState, e, FALSE))

AccessRefused(e) ==
    /\ exch[e].init = "connecting"
    /\ Commit(initiate_handle_connect_error(PoolState, e, "access"))

AttemptsExhausted(e) ==
    /\ exch[e].init = "connecting" /\ exch[e].attempts > connect_attempts
    /\ Commit(initiate_handle_connect_error(PoolState, e, "socket"))

ClosedWhileWaiting(e) ==
    \E c \in Conn :
        /\ exch[e].tcp_conn = c /\ exch[e].input_state = "WAITING"
        /\ tcp[c].tcp_connected
        /\ Commit(tcp_handle_close(PoolState, c))

ConnectionFailed(e) ==
    LookupFailed(e) \/ AccessRefused(e) \/ AttemptsExhausted(e)
        \/ ClosedWhileWaiting(e)

C9_RetryBounded ==
    \A e \in Exch :
        /\ exch[e].retries <= cfg.retry_limit
        /\ exch[e].used <= exch[e].retries + 1
        /\ exch[e].retry_ev <= 1
        /\ exch[e].retry_ev > 0 => exch[e].retries < cfg.retry_limit
        /\ exch[e].err_text = "Tried to connect" =>
               /\ Idempotent(e)
               /\ exch[e].err_tries = cfg.retry_limit + 1
               /\ exch[e].used = cfg.retry_limit + 1
               /\ Cardinality({i \in 1 .. Len(exch[e].log) :
                                 exch[e].log[i] = "ConnectError"}) = 1
               /\ exch[e].log[Len(exch[e].log)] = "ConnectError"

C9_Witness ==
    cfg.retry_limit = 1 /\ \E e \in Exch :
        /\ exch[e].err_text = "Tried to connect" /\ exch[e].err_tries = 2
        /\ exch[e].used = 2 /\ exch[e].log = <<"ConnectError">>

\* the other case of C9: with retry_limit = 3, two connections closed before
\* any response byte and a third that answers, the exchange completes.
C9_ThirdAnswers ==
    cfg.retry_limit = 3 /\ \E e \in Exch :
        /\ exch[e].retries = 2 /\ exch[e].used = 3
        /\ exch[e].log = <<"response_done">>

\* C11: a delete() of a handle that was already deleted, or whose timer
\* already fired (as when the callback deletes its own handle), leaves the
\* scheduled events as they are; a timer deleted before it fires is never
\* invoked, and no timer is invoked more than once.
C11_DeleteIdempotent ==
    /\ ~reactor.changed
    /\ \A h \in 1 .. Len(reactor.handles) :
           /\ reactor.handles[h].fired <= 1
           /\ reactor.handles[h].cancelled => reactor.handles[h].fired = 0

C11_Witness ==
    /\ \E h \in 1 .. Len(reactor.handles) :
           /\ reactor.handles[h].callback = [op |-> "delete_self"]
           /\ reactor.handles[h].fired = 1 /\ reactor.handles[h].calls = 2
    /\ \E h \in 1 .. Len(reactor.handles) :
           /\ reactor.handles[h].cancelled /\ reactor.handles[h].calls = 2
           /\ reactor.handles[h].when <= now /\ invoked # <<>>

\* C12: a stop leaves no scheduled timer and no registered fd, sets running
\* to false and emits stop; a run after it sets running and emits start;
\* and every timer that fires was scheduled after the latest stop.
C12_StopThenRun ==
    [][/\ reactor'.epoch > reactor.epoch =>
              /\ sched_events' = <<>> /\ reactor'.fd_targets = {}
              /\ ~reactor'.running /\ reactor'.last_emit = "stop"
       /\ (~reactor.running /\ reactor'.running) =>
              reactor'.last_emit = "start"
       /\ \A h \in 1 .. Len(reactor'.handles) :
              reactor'.handles[h].fired > 0 =>
                  reactor'.handles[h].fired_epoch
                      = reactor'.handles[h].epoch]_vars

C12_Witness ==
    /\ reactor.epoch >= 1 /\ reactor.running /\ reactor.last_emit = "start"
    /\ \E h \in 1 .. Len(reactor.handles) :
           /\ reactor.handles[h].epoch = 0 /\ reactor.handles[h].when <= now
           /\ reactor.handles[h].fired = 0 /\ ~reactor.handles[h].deleted
    /\ \E h \in 1 .. Len(reactor.handles) :
           reactor.handles[h].epoch >= 1 /\ reactor.handles[h].fired = 1

\* C5: whatever the slicing, the input_body chunks concatenate to a prefix
\* of the encoded body, input_end is called at most once, and when all
\* bytes are delivered the body is complete and input_end was called once.
C5_DecodesChunkedBody ==
    /\ codec.ends <= 1
    /\ Len(codec.body) <= Len(sent)
    /\ codec.body = SubSeq(sent, 1, Len(codec.body))
    /\ wire = <<>> => codec.body = sent /\ codec.ends = 1

\* C10: a timer pass removes and invokes every timer that was due when it
\* began, in non-decreasing deadline order, and invokes no timer that is
\* still in the future.
C10_PassRunsDueTimers ==
    [][TimerPass =>
          /\ \A i \in 1 .. Len(sched_events) :
                 sched_events[i].when <= now =>
                     /\ \E j \in 1 .. Len(invoked') :
                            invoked'[j] = sched_events[i]
                     /\ \A j \in 1 .. Len(sched_events') :
                            sched_events'[j] # sched_events[i]
          /\ \A j, k \in 1 .. Len(invoked') :
                 j < k => invoked'[j].when <= invoked'[k].when
          /\ \A j \in 1 .. Len(invoked') : invoked'[j].when <= now]_vars

(***************************************************************************)
(* The event emitter.                                                      *)
(***************************************************************************)
Count(q, x) == Cardinality({k \in 1 .. Len(q) : q[k] = x})

\* the bodies the outermost dispatch ran before remove_listeners
BeforeClear == SubSeq(emitter.calls, 1,
                      Len(emitter.calls) - Len(emitter.after))

\* listener l was removed during the dispatch by a listener other than
\* itself
RemovedByOther(l) ==
    \/ l \in emitter.skipped
    \/ emitter.cleared /\ l \notin Range(BeforeClear)

\* C13: an emit whose listeners emit nothing themselves and that raised
\* nothing has invoked every listener that was registered when it started
\* and that no other listener removed exactly once, in registration order.
C13_EveryListenerOnce ==
    (/\ ~emitter.raised
     /\ \A l \in Range(emitter.start) : emitter.regs[l].body.op # "emit")
    => /\ \A l \in Range(emitter.start) :
              ~RemovedByOther(l) => Count(emitter.calls, l) = 1
       /\ \A j, k \in 1 .. Len(emitter.calls) :
              j < k => emitter.calls[j] < emitter.calls[k]

\* C14: a listener registered with once has been invoked at most once,
\* also when the event is emitted again from inside a listener.
C14_OnceAtMostOnce ==
    \A l \in 1 .. Len(emitter.regs) :
        emitter.regs[l].once => emitter.regs[l].count <= 1

\* C15 as stated: in a dispatch no listener taken away by remove_listener
\* before its turn is invoked, and none is invoked once remove_listeners
\* was called.
C15_RemovedAreSkipped ==
    /\ emitter.late = {}
    /\ emitter.cleared => emitter.after = <<>>

\* C15: in a dispatch no listener taken away by remove_listener before
\* its turn is invoked; after remove_listeners the dispatch goes on over
\* the list it started with, invoking the listeners it had yet to visit,
\* all of them unless one raised.
C15_RemovalDuringDispatch ==
    /\ emitter.late = {}
    /\ emitter.cleared =>
          /\ Len(emitter.after) <= Len(emitter.rest)
          /\ emitter.after = SubSeq(emitter.rest, 1, Len(emitter.after))
          /\ ~emitter.raised => emitter.after = emitter.rest

C15_Witness ==
    /\ emitter.cleared
    /\ emitter.after # <<>>
    /\ ~emitter.raised

\* C16: remove_listener of a listener that is not in the event's list
\* raises nothing and changes nothing.
C16_RemoveAbsentIsNoop ==
    [][\A l \in Listeners :
          (/\ l \notin Range(listeners(emitter))
           /\ emitter' = remove_listener(Fresh(emitter), l, FALSE))
          => /\ ~emitter'.raised
             /\ emitter'.heap = emitter.heap
             /\ emitter'.cur = emitter.cur]_vars

(***************************************************************************)
(* TcpConnection.                                                          *)
(***************************************************************************)
\* C17: a connection emits close at most once, emits no data after close,
\* and emits the bytes it received in the order of their arrival.
C17_CloseOnceDataInOrder ==
    /\ sock.closes <= 1
    /\ ~sock.data_after_close
    /\ \A k \in 1 .. Len(sock.delivered) : sock.delivered[k] = k

C17_Witness ==
    /\ sock.closes = 1
    /\ Len(sock.delivered) >= 2
    /\ sock.inbound # <<>>

\* C18: a close() called with buffered output closes the connection only
\* when send has accepted every buffered byte.
C18_ClosesAfterFlush == sock.closed_with \in {-1, 0}

(***************************************************************************)
(* TcpClient.                                                              *)
(***************************************************************************)
\* C19: a connect on a TcpClient emits at most one event, and once
\* handle_connect or handle_conn_error has run for it, it has emitted
\* exactly one, a connect or a connect_error.
C19_ExactlyOneOutcome ==
    /\ Len(client.events) <= 1
    /\ client.handled => Len(client.events) = 1

\* C20: a connect that check_ip refuses has emitted
\* connect_error("access", 0) and nothing else, has made no socket, leaves
\* no fd registered and leaves no connect timeout scheduled.
C20_RefusedByCheckIp ==
    client.refused =>
        /\ client.events = <<[name |-> "connect_error",
                              err_type |-> "access", err_id |-> "0"]>>
        /\ ~client.created
        /\ ~client.registered
        /\ client.timeout_ev # "scheduled"

(***************************************************************************)
(* The HTTP client: interim responses, connection reuse, connect attempts. *)
(***************************************************************************)
\* C21: when a response completes, its connection is released for reuse if
\* and only if the final response carried no Connection: close and was
\* HTTP/1.1, or HTTP/1.0 with keep-alive; an interim 1xx response before the
\* final one does not change the decision.
C21_ReleasedIffFinalReusable ==
    \A e \in Exch :
        exch[e].done_branch # "none" =>
            (exch[e].done_branch = "release" <=> exch[e].final_reusable)

\* C22: every interim 1xx head is reported as response_nonfinal before the
\* response_start; the parser waits for the next head after it; an exchange
\* reports at most one response_start, and response_done only after it.
C22_InterimThenFinal ==
    \A e \in Exch :
        /\ exch[e].in_order
        /\ exch[e].starts <= 1
        /\ "response_done" \in Range(exch[e].log) => exch[e].starts = 1
        /\ (exch[e].nonfinal > 0 /\ exch[e].starts = 0 /\ exch[e].log = <<>>)
               => exch[e].input_state = "WAITING"

C22_Witness ==
    \E e \in Exch :
        /\ exch[e].nonfinal = 2 /\ exch[e].starts = 1 /\ exch[e].used = 1
        /\ exch[e].log = <<"response_done">>

\* C28: a connection initiation reports connect_error("retry") only when
\* exactly connect_attempts attempts have failed.
C28_GivesUpAfterConnectAttempts ==
    \A e \in Exch : exch[e].gave_up_after \in {0, connect_attempts}

\* C25: when the connection of an exchange closes while the exchange waits
\* for a response head and cannot be retried, or while the body of a
\* response delimited by Content-Length or by chunking is incomplete, the
\* exchange emits error with a ConnectError, its only one, and has emitted
\* no response_done.
Occurrences(log, ev) == Cardinality({i \in 1 .. Len(log) : log[i] = ev})

InFlight(e) ==
    \/ /\ exch[e].input_state = "HEADERS_DONE"
       /\ exch[e].input_delimit \in {"COUNTED", "CHUNKED"}
    \/ /\ exch[e].input_state = "WAITING"
       /\ NonIdempotent(e) \/ exch[e].retries >= cfg.retry_limit

ClosedInFlight(e) ==
    \E c \in Conn :
        /\ exch[e].tcp_conn = c /\ tcp[c].tcp_connected /\ InFlight(e)
        /\ Commit(tcp_handle_close(PoolState, c))

C25_CloseInFlightIsConnectError ==
    [][\A e \in Exch :
          ClosedInFlight(e) =>
              /\ Surfaces(e, "ConnectError")
              /\ Occurrences(exch'[e].log, "ConnectError") = 1
              /\ Occurrences(exch'[e].log, "response_done") = 0]_vars

C25_Witness ==
    \E e \in Exch :
        /\ exch[e].starts = 1 /\ exch[e].input_delimit = "CHUNKED"
        /\ exch[e].log = <<"ConnectError">>
        /\ exch[e].err_text = "Server dropped connection"

\* C27: when release_conn is called for a connected connection while
\* exchanges wait for the origin, the connection is handed to the exchange
\* that was queued first, that exchange leaves the queue, the connection is
\* not put on the idle list and conn_counts stays as it is.
Released(e, c) ==
    /\ exch[e].tcp_conn = c /\ tcp[c].tcp_connected
    /\ exch[e].done_branch = "none" /\ exch'[e].done_branch = "release"

C27_ReleaseServesFirstWaiter ==
    [][\A e \in Exch, c \in Conn :
          (Released(e, c) /\ req_q # <<>>) =>
              /\ req_q' = Tail(req_q)
              /\ exch'[Head(req_q)].tcp_conn = c
              /\ exch'[Head(req_q)].used = exch[Head(req_q)].used + 1
              /\ tcp'[c].close_l = [kind |-> "exchange", e |-> Head(req_q)]
              /\ idle_conns' = idle_conns
              /\ c \notin Range(idle_conns')
              /\ conn_counts' = conn_counts]_vars

C27_Witness ==
    /\ nconn = 1 /\ Len(req_q) = 1
    /\ \E e1, e2 \in Exch :
           /\ e1 # e2
           /\ exch[e1].done_branch = "release"
           /\ exch[e2].tcp_conn = 1 /\ exch[e2].used = 1

\* Every connection on the idle list is connected: a connection that closes
\* while idle leaves the list in the callback that marks it disconnected
\* (idle_close), so attach_conn never pops a disconnected connection.
IdleConnsConnected ==
    \A i \in 1 .. Len(idle_conns) : tcp[idle_conns[i]].tcp_connected

\* C30: once pause(True) was emitted, a writable notification emits
\* pause(False) only when send has accepted every buffered byte; after a
\* partial send it emits none.
C30_UnpausedOnlyWhenFlushed == sock.unpaused_with \in {-1, 0}

(***************************************************************************)
(* HttpServer.                                                             *)
(***************************************************************************)
\* C24: when shutdown is called while a request is in flight, the server
\* emits stop only after that exchange has completed: at the stop event no
\* exchange is without its complete response.
C24_StopAfterExchanges == server.stopped_with \in {-1, 0}

(***************************************************************************)
(* DNS lookups.                                                            *)
(***************************************************************************)
\* C26: the completion of a DNS lookup is handed to the reactor thread
\* before any callback into the core: no lookup callback, and so no change
\* it makes to the loop, the pool or an exchange, runs on a resolver thread.
C26_CallbackOnReactorThread ==
    \A j \in Jobs :
        resolver.jobs[j].core # "none" => resolver.jobs[j].cb_thread = "reactor"

(***************************************************************************)
(* The HTTP message codec.                                                 *)
(***************************************************************************)
\* C23: a valid HTTP/1.1 message without folded headers that is parsed and
\* written out again with output_start, output_body and output_end and the
\* same delimiter comes out as the bytes that went in.
C23_RoundTripIsIdentity ==
    (message.received /\ message.events = <<>>)
        => message.out = message.original

(***************************************************************************)
(* The header parser: what the response head says, read off its            *)
(* description and not off its bytes.                                      *)
(***************************************************************************)
FieldsOf(kind) == SelectSeq(sent.fields, LAMBDA f : f.kind = kind)

RECURSIVE AllCodes(_)
AllCodes(fields) ==
    IF fields = <<>> THEN <<>>
    ELSE Head(fields).codes \o AllCodes(Tail(fields))

SentCodes == AllCodes(sent.fields)
SentLengths == FieldsOf("cl")

\* every Content-Length of the head is a number, and the same number
CleanLengths ==
    \A i \in 1 .. Len(SentLengths) :
        SentLengths[i].num # <<>> /\ SentLengths[i].num = SentLengths[1].num

ExpectedDelimit ==
    IF ~sent.allows_body THEN "NOBODY"
    ELSE IF SentCodes # <<>>
    THEN (IF SentCodes[Len(SentCodes)] = "chunked" THEN "CHUNKED" ELSE "CLOSE")
    ELSE IF SentLengths # <<>> THEN "COUNTED"
    ELSE "CLOSE"

HeadParsed == codec.input_state # "WAITING"

\* C31: after a message head is parsed the delimiter is NOBODY if the
\* message allows no body, else CHUNKED or CLOSE by the last transfer coding
\* if there is one, else COUNTED with the Content-Length if there is one,
\* else CLOSE; a Content-Length next to a Transfer-Encoding plays no part.
C31_DelimiterByFirstRule ==
    (codec.framed # <<>> /\ (SentCodes # <<>> \/ CleanLengths)) =>
        /\ codec.framed[1].delimit = ExpectedDelimit
        /\ ExpectedDelimit = "COUNTED" =>
               codec.framed[1].left = SentLengths[1].num[1]

C31_Witness ==
    /\ codec.framed # <<>> /\ SentCodes # <<>> /\ SentLengths # <<>>
    /\ codec.framed[1].delimit = "CHUNKED" /\ codec.ends = 1

CodecCallbacks(C) == <<C.starts, C.chunks, C.ends, C.trailers, C.errors>>

C34_ErrorStaysError ==
    codec.errors # <<>> => codec.input_state = "ERROR"

\* C36: output_end of a chunked message leaves a complete chunked message,
\* one that ends in CRLF CRLF, with and without trailers.
C36_ChunkedEndIsComplete ==
    (/\ message.received /\ message.events = <<>>
     /\ message.output_delimit = "CHUNKED") =>
        /\ Len(message.out) >= 4
        /\ SubSeq(message.out, Len(message.out) - 3, Len(message.out))
               = CRLF \o CRLF

\* C35: when careful is false and the parser reports an error that the
\* design gives as recoverable by a client (here HeaderSpaceError), the
\* exchange emits error, keeps its connection, which it marks as not
\* reusable, and goes on parsing.
C35_RecoverableErrorKeepsConnection ==
    \A e \in Exch :
        (~cfg.careful /\ exch[e].log = <<"HeaderSpaceError">>) =>
            /\ exch[e].tcp_conn # 0
            /\ tcp[exch[e].tcp_conn].tcp_connected
            /\ ~exch[e].conn_reusable
            /\ exch[e].input_state # "ERROR"

\* the timers that the latest timer pass invoked and whose callback calls
\* stop
Stoppers ==
    {k \in 1 .. Len(invoked) :
        reactor.handles[invoked[k].id].callback.op = "stop"}

\* C37: when a timer callback stops the loop during a timer pass, no other
\* timer callback is invoked in that pass, not even one that is already due.
C37_StopEndsThePass == \A k \in Stoppers : k = Len(invoked)

\* a timer stopped the loop while two timers scheduled after it for the
\* same time were pending, and neither was invoked
C37_Witness ==
    \E k \in Stoppers : \E h1, h2 \in 1 .. Len(reactor.handles) :
        /\ invoked[k].id < h1 /\ h1 < h2
        /\ \A h \in {h1, h2} :
               /\ reactor.handles[h].when = invoked[k].when
               /\ reactor.handles[h].epoch < reactor.epoch
               /\ ~reactor.handles[h].deleted
               /\ reactor.handles[h].fired = 0
        /\ ~reactor.running

\* C38: after unregister_fd the set of interesting events of the event
\* source is empty.
C38_UnregisterClearsInterest ==
    ~client.registered => client.interesting = {}

\* C39: a request head without a Host header is answered by a 400
\* response, one with a transfer coding other than identity and chunked by
\* a 501 response, and for neither is the exchange event emitted.
C39_BadHeadsAreAnswered ==
    \A c \in ServerConns :
        /\ server.conns[c].head = "nohost" =>
               server.conns[c].status = "400" /\ ~server.conns[c].exchange
        /\ server.conns[c].head = "badcode" =>
               server.conns[c].status = "501" /\ ~server.conns[c].exchange

\* the responses of a connection are all complete
Answered(c) ==
    /\ server.conns[c].ex_queue # <<>>
    /\ \A i \in 1 .. Len(server.conns[c].ex_queue) :
           server.conns[c].ex_queue[i].responded

\* C40: once a response has completed on a server connection that stays
\* open, an idle timer is pending, until bytes of a new request arrive.
C40_IdleTimerArmed ==
    \A c \in ServerConns :
        (server.conns[c].open /\ Answered(c)) => server.conns[c].idler

====
